---- MODULE Spec2Model ----
(***************************************************************************)
(* Model of the order and design handlers of app.py.                       *)
(*                                                                         *)
(* The orders store (orders_new.db, table orders) and the designs store    *)
(* (designs_fresh.db, table designs) are modelled as sets of rows; every   *)
(* HTTP handler is a function from the store and the request to the new    *)
(* store and the JSON response, and an action that applies it.             *)
(*                                                                         *)
(* JSON and SQL values are tagged records, so that None/NULL, numbers and  *)
(* strings can be told apart:  Null, Num(n), Str(s); a key that a JSON     *)
(* object does not carry is Absent.  Order prices are fixed-point numbers  *)
(* in thousandths of the currency unit (1000 = 1.00), so that rounding to  *)
(* two decimals is observable; design prices are whole currency units.     *)
(* Timestamps are integer seconds: the format %Y-%m-%d %H:%M:%S orders as  *)
(* text exactly as the seconds do.                                         *)
(***************************************************************************)
EXTENDS Integers, Sequences, FiniteSets, TLC

(***************************************************************************)
(* Bounds                                                                  *)
(***************************************************************************)
\* most lines the orders table ever receives (bounds the AUTOINCREMENT id)
MaxRows == 2
\* last second of the clock
MaxClock == 1

(***************************************************************************)
(* Values                                                                  *)
(***************************************************************************)
Null == [k |-> "null"]
JsonTrue == [k |-> "true"]
Absent == [k |-> "absent"]
Num(n) == [k |-> "num", v |-> n]
Str(s) == [k |-> "str", v |-> s]
List(seq) == [k |-> "list", v |-> seq]

\* Python truthiness of a JSON/SQL value
Truthy(x) ==
    \/ x.k = "num" /\ x.v # 0
    \/ x.k = "str" /\ x.v # ""
    \/ x.k = "true"

\* Python `x or d`
PyOr(x, d) == IF Truthy(x) THEN x ELSE d

\* Python `n or d` for a number
IntOr(n, d) == IF n # 0 THEN n ELSE d

\* dict.get(key, default): the default only replaces a missing key
Get(obj, key, default) == IF obj[key] = Absent THEN default ELSE obj[key]

\* the numeric strings the model sends, with the number they denote
NumericStrings == {"2", "20"}
StrToNum(s) == IF s = "2" THEN 2 ELSE 20

\* float(x) / int(x) succeed on numbers and numeric strings only
Convertible(x) ==
    \/ x.k = "num"
    \/ x.k = "str" /\ x.v \in NumericStrings
ToNumber(x) == IF x.k = "num" THEN x.v ELSE StrToNum(x.v)

(***************************************************************************)
(* State                                                                   *)
(***************************************************************************)
VARIABLES
    tableExists,    \* orders table present in orders_new.db
    columns,        \* column names of the orders table
    orders,         \* rows of the orders table
    nextRowId,      \* next AUTOINCREMENT id of the orders table
    clock,          \* current time in seconds
    designs,        \* rows of the designs table
    nextDesignId,   \* next AUTOINCREMENT id of the designs table
    previews,       \* rows of the design_previews table
    nextPreviewId,  \* next AUTOINCREMENT id of the design_previews table
    cart,           \* rows of the user_cart table
    nextCartId,     \* next AUTOINCREMENT id of the user_cart table
    wishlist,       \* rows of the user_wishlist table
    nextWishlistId, \* next AUTOINCREMENT id of the user_wishlist table
    boot,           \* init_databases: the init function running and its loop
    req,            \* the last request: handler and path parameter
    resp            \* the response to it

orderVars == <<tableExists, columns, orders, nextRowId, clock>>
designVars == <<designs, nextDesignId, previews, nextPreviewId>>
userVars == <<cart, nextCartId, wishlist, nextWishlistId>>
vars == <<tableExists, columns, orders, nextRowId, clock, designs, nextDesignId,
          previews, nextPreviewId, cart, nextCartId, wishlist, nextWishlistId,
          boot, req, resp>>

(***************************************************************************)
(* Orders store: table shapes and rows                                     *)
(***************************************************************************)
\* columns every version of the orders table has
BaseColumns ==
    {"id", "username", "design_name", "price", "quantity", "image_url",
     "order_date", "status", "created_at"}

\* the customization columns, optional for get_orders
CustomColumns ==
    {"placement_position", "design_side", "design_width", "design_height",
     "custom_requirements"}

\* optional_columns of get_orders
OptionalColumns == CustomColumns \cup {"order_id"}

\* the table init_orders_db creates: customization columns, no order_id
InitOrdersColumns == BaseColumns \cup CustomColumns

\* the table save_order creates when there is none
SaveOrderColumns == BaseColumns \cup CustomColumns \cup {"order_id"}

\* DEFAULT of an optional column (order_id TEXT has none)
ColumnDefault(c) ==
    CASE c = "placement_position" -> Str("")
      [] c = "design_side" -> Str("front")
      [] c = "design_width" -> Num(0)
      [] c = "design_height" -> Num(0)
      [] c = "custom_requirements" -> Str("")
      [] OTHER -> Null

\* ALTER TABLE orders ADD COLUMN for each column of `added`: the rows already
\* stored read the column's default from then on
AddColumns(rows, added) ==
    {[c \in DOMAIN r |-> IF c \in added THEN ColumnDefault(c) ELSE r[c]] : r \in rows}

\* the value a row stores in an optional column it was not given: the default
\* when the table has the column, nothing (read as Null) when it has not
Defaulted(cols, c) == IF c \in cols THEN ColumnDefault(c) ELSE Null

Users == {"alice", "bob"}
\* random.randint(1000, 9999), two of its values
RandomSuffixes == {1000, 1001}

\* order_id = f"ORD{int(time.time())}{random.randint(1000, 9999)}"
SaveOrderId(t, rnd) == Str(<<"ORD", t, rnd>>)

\* new_order_id = f"ORD{order_id}{int(time.time())}" of fix_orders_structure
FixedOrderId(rowId, t) == Str(<<"ORD", rowId, t>>)

(***************************************************************************)
(* save_order                                                              *)
(***************************************************************************)
\* an item of the request converts: float(price), int(quantity),
\* int(design_width), int(design_height) raise on None and on text
ItemConverts(item) ==
    /\ Convertible(Get(item, "price", Num(0)))
    /\ Convertible(Get(item, "quantity", Num(1)))
    /\ Convertible(Get(item, "design_width", Num(0)))
    /\ Convertible(Get(item, "design_height", Num(0)))

\* mutant: the status the lines are stamped with is Ordered
SaveOrderStatusOrdered == "Ordered"

\* the status save_order stamps on every line
SaveOrderStatus == "Pending"

\* mutant: every line gets an identifier of its own, made from its row id
OrderRowOwnIdentifier(id, orderId, username, item, t) ==
    [id |-> id,
     order_id |-> Str(<<"ORD", t, id>>),
     username |-> username,
     design_name |-> Get(item, "name", Str("Unknown Design")),
     price |-> ToNumber(Get(item, "price", Num(0))),
     quantity |-> ToNumber(Get(item, "quantity", Num(1))),
     image_url |-> Get(item, "image", Str("")),
     placement_position |-> Get(item, "placement_position", Str("")),
     design_side |-> Get(item, "design_side", Str("front")),
     design_width |-> Num(ToNumber(Get(item, "design_width", Num(0)))),
     design_height |-> Num(ToNumber(Get(item, "design_height", Num(0)))),
     custom_requirements |-> Get(item, "custom_requirements", Str("")),
     order_date |-> t,
     status |-> "Pending"]

\* the row one INSERT of save_order stores for `item`
OrderRow(id, orderId, username, item, t) ==
    [id |-> id,
     order_id |-> orderId,
     username |-> username,
     design_name |-> Get(item, "name", Str("Unknown Design")),
     price |-> ToNumber(Get(item, "price", Num(0))),
     quantity |-> ToNumber(Get(item, "quantity", Num(1))),
     image_url |-> Get(item, "image", Str("")),
     placement_position |-> Get(item, "placement_position", Str("")),
     design_side |-> Get(item, "design_side", Str("front")),
     design_width |-> Num(ToNumber(Get(item, "design_width", Num(0)))),
     design_height |-> Num(ToNumber(Get(item, "design_height", Num(0)))),
     custom_requirements |-> Get(item, "custom_requirements", Str("")),
     order_date |-> t,
     status |-> SaveOrderStatus]

\* mutant: the INSERT does not name order_id
InsertWithoutOrderId(cols) == (SaveOrderColumns \ {"order_id"}) \subseteq cols

\* the INSERT names order_id and the customization columns: it fails on a
\* table that lacks one of them
InsertAccepted(cols) == SaveOrderColumns \subseteq cols

\* an item of the request is a JSON object; any other JSON value has no get
IsObject(item) == "k" \notin DOMAIN item

\* the loop over the items: an item that does not convert, or whose INSERT
\* fails, is recorded in errors and skipped; the others are stored one by one.
\* An item that is no object raises in the try block and again in its except
\* clause (item.get), which ends the loop with the exception
RECURSIVE InsertItems(_, _, _, _, _, _, _)
InsertItems(items, index, cols, orderId, username, t, acc) ==
    IF index > Len(items) THEN acc
    ELSE IF ~IsObject(items[index]) THEN [acc EXCEPT !.raised = TRUE]
    ELSE IF ItemConverts(items[index]) /\ InsertAccepted(cols)
         THEN InsertItems(items, index + 1, cols, orderId, username, t,
                  [rows |-> acc.rows \cup
                               {OrderRow(acc.nextRowId, orderId, username, items[index], t)},
                   nextRowId |-> acc.nextRowId + 1,
                   saved_count |-> acc.saved_count + 1,
                   errors |-> acc.errors,
                   raised |-> FALSE])
         ELSE InsertItems(items, index + 1, cols, orderId, username, t,
                  [acc EXCEPT !.errors = Append(@, index)])

\* the store left alone, with a failure response
OrdersUntouched(status, message) ==
    [tableExists |-> tableExists, columns |-> columns, orders |-> orders,
     nextRowId |-> nextRowId,
     resp |-> [success |-> FALSE, status |-> status, message |-> message]]

\* the checks save_order makes before it touches the store: the status and
\* message it answers with, status 0 when the request passes them
SaveOrderRejection(data) ==
    \* `not data`: no body, or an object without any key
    IF data = Null \/ (\A key \in DOMAIN data : data[key] = Absent)
    THEN [status |-> 400, message |-> "No data received"]
    \* len(items) is printed before the checks: it raises on a null items
    ELSE IF Get(data, "items", List(<<>>)) = Null
    THEN [status |-> 500, message |-> "Error saving order"]
    ELSE IF ~Truthy(Get(data, "username", Null))
    THEN [status |-> 400, message |-> "Username is required"]
    ELSE IF Get(data, "items", List(<<>>)).v = <<>>
    THEN [status |-> 400, message |-> "No items in order"]
    ELSE [status |-> 0, message |-> ""]

\* mutant: the order is stored whole or not at all; one failed line undoes
\* the lines stored before it and fails the call
SaveOrderAllOrNothing(data, t, rnd) ==
    IF SaveOrderRejection(data).status # 0
    THEN OrdersUntouched(SaveOrderRejection(data).status, SaveOrderRejection(data).message)
    ELSE
    LET cols == IF tableExists THEN columns ELSE SaveOrderColumns
        orderId == SaveOrderId(t, rnd)
        done == InsertItems(data.items.v, 1, cols, orderId, data.username.v, t,
                    [rows |-> orders, nextRowId |-> nextRowId,
                     saved_count |-> 0, errors |-> <<>>, raised |-> FALSE])
    IN  IF done.raised \/ done.errors # <<>>
        THEN [tableExists |-> TRUE, columns |-> cols, orders |-> orders,
              nextRowId |-> nextRowId,
              resp |-> [success |-> FALSE, status |-> 500,
                        message |-> "Error saving order"]]
        ELSE [tableExists |-> TRUE, columns |-> cols, orders |-> done.rows,
              nextRowId |-> done.nextRowId,
              resp |-> [success |-> TRUE, status |-> 200,
                        order_id |-> orderId, saved_count |-> done.saved_count,
                        errors |-> done.errors]]

\* POST /saveOrder with JSON body `data` at second t, random suffix rnd
SaveOrderResult(data, t, rnd) ==
    IF SaveOrderRejection(data).status # 0
    THEN OrdersUntouched(SaveOrderRejection(data).status, SaveOrderRejection(data).message)
    ELSE
    LET cols == IF tableExists THEN columns ELSE SaveOrderColumns
        orderId == SaveOrderId(t, rnd)
        done == InsertItems(data.items.v, 1, cols, orderId, data.username.v, t,
                    [rows |-> orders, nextRowId |-> nextRowId,
                     saved_count |-> 0, errors |-> <<>>, raised |-> FALSE])
    IN  IF done.raised
        THEN \* the outer except answers; commit is never reached, so the lines
             \* inserted so far are rolled back when the connection is dropped;
             \* the CREATE TABLE ran outside the transaction and stays
             [tableExists |-> TRUE, columns |-> cols, orders |-> orders,
              nextRowId |-> nextRowId,
              resp |-> [success |-> FALSE, status |-> 500,
                        message |-> "Error saving order"]]
        ELSE
        [tableExists |-> TRUE, columns |-> cols, orders |-> done.rows,
         nextRowId |-> done.nextRowId,
         resp |-> IF done.saved_count > 0
                  THEN [success |-> TRUE, status |-> 200,
                        order_id |-> orderId, saved_count |-> done.saved_count,
                        errors |-> done.errors]
                  ELSE [success |-> FALSE, status |-> 500,
                        message |-> "Failed to save any items"]]

(***************************************************************************)
(* get_orders                                                              *)
(***************************************************************************)
\* mutant: ORDER BY order_date ASC
DateAscending(rows) ==
    \A i \in 1..Len(rows) : \A j \in 1..Len(rows) :
        i < j => rows[i].order_date <= rows[j].order_date

\* SELECT ... WHERE username=? ORDER BY order_date DESC: the user's rows,
\* newest first; SQL leaves the order of rows with equal dates open
DateDescending(rows) ==
    \A i \in 1..Len(rows) : \A j \in 1..Len(rows) :
        i < j => rows[i].order_date >= rows[j].order_date

\* mutant: the SELECT has no WHERE clause
FetchesOfAllUsers(username) ==
    LET n == Cardinality(orders)
    IN  {f \in [1..n -> orders] :
            /\ \A i \in 1..n : \A j \in 1..n : i # j => f[i] # f[j]
            /\ DateDescending(f)}

Fetches(username) ==
    LET mine == {r \in orders : r.username = username}
        n == Cardinality(mine)
    IN  {f \in [1..n -> mine] :
            /\ \A i \in 1..n : \A j \in 1..n : i # j => f[i] # f[j]
            /\ DateDescending(f)}

\* mutant: the quantity is left out of the line total
ItemTotalUnitPrice(row) == IntOr(row.price, 0)

\* mutant: 18% tax added to the line total
ItemTotalWithTax(row) == (IntOr(row.price, 0) * IntOr(row.quantity, 1) * 118) \div 100

\* item_total = (price or 0) * (quantity or 1)
ItemTotal(row) == IntOr(row.price, 0) * IntOr(row.quantity, 1)

PlaceholderImage == Str("https://via.placeholder.com/80?text=No+Image")

\* mutant: the customization values are emitted as they are stored
GroupedItemRaw(row, cols) ==
    LET keys == {"name", "price", "quantity", "image"} \cup (CustomColumns \cap cols)
    IN  [key \in keys |->
            CASE key = "name" -> PyOr(row.design_name, Str("Unknown Design"))
              [] key = "price" -> Num(IntOr(row.price, 0))
              [] key = "quantity" -> Num(IntOr(row.quantity, 1))
              [] key = "image" -> PyOr(row.image_url, PlaceholderImage)
              [] OTHER -> row[key]]

\* item_data of the grouping branch: the four fixed keys, and one key per
\* customization column the table has, null or empty values defaulted
GroupedItem(row, cols) ==
    LET keys == {"name", "price", "quantity", "image"} \cup (CustomColumns \cap cols)
    IN  [key \in keys |->
            CASE key = "name" -> PyOr(row.design_name, Str("Unknown Design"))
              [] key = "price" -> Num(IntOr(row.price, 0))
              [] key = "quantity" -> Num(IntOr(row.quantity, 1))
              [] key = "image" -> PyOr(row.image_url, PlaceholderImage)
              [] key = "placement_position" -> PyOr(row.placement_position, Str(""))
              [] key = "design_side" -> PyOr(row.design_side, Str("front"))
              [] key = "design_width" -> PyOr(row.design_width, Num(0))
              [] key = "design_height" -> PyOr(row.design_height, Num(0))
              [] key = "custom_requirements" -> PyOr(row.custom_requirements, Str(""))]

\* the key a row is grouped under: its stored order_id, null included
GroupKey(row) == row.order_id

\* mutant: a group already opened is never found again
GroupIndexNone(groups, key) == 0

\* position of the group with key `key` in the groups built so far, 0 if none
GroupIndex(groups, key) ==
    IF \E i \in 1..Len(groups) : groups[i].order_id = key
    THEN CHOOSE i \in 1..Len(groups) : groups[i].order_id = key
    ELSE 0

\* mutant: every row of a group overwrites the date and status of the group
RECURSIVE GroupRowsLastLine(_, _, _, _)
GroupRowsLastLine(rows, index, cols, groups) ==
    IF index > Len(rows) THEN groups
    ELSE
    LET row == rows[index]
        key == GroupKey(row)
        at == GroupIndex(groups, key)
        opened == IF at # 0 THEN groups
                  ELSE Append(groups, [order_id |-> key, date |-> row.order_date,
                                       status |-> row.status, items |-> <<>>,
                                       total |-> 0])
        g == IF at # 0 THEN at ELSE Len(opened)
    IN  GroupRowsLastLine(rows, index + 1, cols,
            [opened EXCEPT ![g].total = @ + ItemTotal(row),
                           ![g].date = row.order_date,
                           ![g].status = row.status,
                           ![g].items = Append(@, GroupedItem(row, cols))])

\* the loop over the fetched rows: order_groups keeps insertion order, the
\* first row of a group sets its date and status, every row adds to its total
RECURSIVE GroupRows(_, _, _, _)
GroupRows(rows, index, cols, groups) ==
    IF index > Len(rows) THEN groups
    ELSE
    LET row == rows[index]
        key == GroupKey(row)
        at == GroupIndex(groups, key)
        opened == IF at # 0 THEN groups
                  ELSE Append(groups, [order_id |-> key, date |-> row.order_date,
                                       status |-> row.status, items |-> <<>>,
                                       total |-> 0])
        g == IF at # 0 THEN at ELSE Len(opened)
    IN  GroupRows(rows, index + 1, cols,
            [opened EXCEPT ![g].total = @ + ItemTotal(row),
                           ![g].items = Append(@, GroupedItem(row, cols))])

\* the value of an optional column in the branch without order_id: the raw
\* stored value, the default only when the column is absent
RawOrDefault(row, cols, c, default) == IF c \in cols THEN row[c] ELSE default

\* order_data of the branch without order_id: one order per row, keyed by
\* the row id
SingleOrder(row, cols) ==
    [order_id |-> Num(row.id),
     date |-> row.order_date,
     status |-> row.status,
     total |-> ItemTotal(row),
     items |-> <<[name |-> PyOr(row.design_name, Str("Unknown Design")),
                  price |-> Num(IntOr(row.price, 0)),
                  quantity |-> Num(IntOr(row.quantity, 1)),
                  image |-> PyOr(row.image_url, PlaceholderImage),
                  placement_position |-> RawOrDefault(row, cols, "placement_position", Str("")),
                  design_side |-> RawOrDefault(row, cols, "design_side", Str("front")),
                  design_width |-> RawOrDefault(row, cols, "design_width", Num(0)),
                  design_height |-> RawOrDefault(row, cols, "design_height", Num(0)),
                  custom_requirements |-> RawOrDefault(row, cols, "custom_requirements", Str(""))]>>]

\* orders_with_items for the rows as fetched
OrdersWithItems(rows, cols) ==
    IF "order_id" \in cols
    THEN GroupRows(rows, 1, cols, <<>>)
    ELSE [i \in 1..Len(rows) |-> SingleOrder(rows[i], cols)]

\* mutant: every order also reports 18% of its total as tax
GetOrdersResponseWithTax(rows) ==
    IF ~tableExists
    THEN [success |-> TRUE, status |-> 200, orders |-> <<>>]
    ELSE LET found == OrdersWithItems(rows, columns)
         IN  [success |-> TRUE, status |-> 200,
              orders |-> [i \in 1..Len(found) |->
                             found[i] @@ [tax |-> (found[i].total * 18) \div 100]]]

\* GET /getOrders/<username>, the SELECT having returned `rows`
GetOrdersResponse(rows) ==
    IF ~tableExists
    THEN [success |-> TRUE, status |-> 200, orders |-> <<>>]
    ELSE [success |-> TRUE, status |-> 200,
          orders |-> OrdersWithItems(rows, columns)]

(***************************************************************************)
(* The other writers of the orders table                                   *)
(***************************************************************************)
Success(message) == [success |-> TRUE, status |-> 200, message |-> message]

\* POST /admin/fix-orders-structure at second t: adds order_id when missing
\* and gives every stored row an identifier made of its row id and the time
FixOrdersStructureResult(t) ==
    IF ~tableExists THEN OrdersUntouched(500, "no such table: orders")
    ELSE IF "order_id" \in columns
    THEN [tableExists |-> TRUE, columns |-> columns, orders |-> orders,
          nextRowId |-> nextRowId, resp |-> Success("Orders structure fixed successfully")]
    ELSE [tableExists |-> TRUE, columns |-> columns \cup {"order_id"},
          orders |-> {[r EXCEPT !.order_id = FixedOrderId(r.id, t)] : r \in orders},
          nextRowId |-> nextRowId, resp |-> Success("Orders structure fixed successfully")]

\* POST /admin/fix-orders-table: adds each optional column that is missing
FixOrdersTableResult ==
    IF ~tableExists THEN OrdersUntouched(500, "no such table: orders")
    ELSE [tableExists |-> TRUE, columns |-> columns \cup OptionalColumns,
          orders |-> AddColumns(orders, OptionalColumns \ columns),
          nextRowId |-> nextRowId,
          resp |-> Success("Orders table structure fixed successfully")]

\* POST /admin/fix-orders-columns: the same columns, each ALTER in its own
\* try, so a missing table only leaves every column unadded
FixOrdersColumnsResult ==
    IF ~tableExists
    THEN [tableExists |-> FALSE, columns |-> columns, orders |-> orders,
          nextRowId |-> nextRowId, resp |-> Success("Added 0 columns to orders table")]
    ELSE [tableExists |-> TRUE, columns |-> columns \cup OptionalColumns,
          orders |-> AddColumns(orders, OptionalColumns \ columns),
          nextRowId |-> nextRowId,
          resp |-> Success("Added columns to orders table")]

\* price 100.00 of the test order, in thousandths
TestOrderPrice == 100000

\* GET /debug/create-test-order/<username> at second t: one row, the base
\* columns only; the optional columns the table has take their defaults
DebugCreateTestOrderResult(username, t) ==
    IF ~tableExists THEN OrdersUntouched(500, "no such table: orders")
    ELSE [tableExists |-> TRUE, columns |-> columns,
          orders |-> orders \cup
              {[id |-> nextRowId,
                order_id |-> Null,
                username |-> username,
                design_name |-> Str("Test Design"),
                price |-> TestOrderPrice,
                quantity |-> 1,
                image_url |-> Str("https://via.placeholder.com/80"),
                placement_position |-> Defaulted(columns, "placement_position"),
                design_side |-> Defaulted(columns, "design_side"),
                design_width |-> Defaulted(columns, "design_width"),
                design_height |-> Defaulted(columns, "design_height"),
                custom_requirements |-> Defaulted(columns, "custom_requirements"),
                order_date |-> t,
                status |-> "Pending"]},
          nextRowId |-> nextRowId + 1,
          resp |-> [success |-> TRUE, status |-> 200, order_id |-> nextRowId]]

\* PUT /admin/orders/<order_id> with body {status: newStatus}
UpdateOrderStatusResult(rowId, newStatus) ==
    IF ~Truthy(newStatus) THEN OrdersUntouched(400, "Status is required")
    ELSE IF ~tableExists THEN OrdersUntouched(500, "no such table: orders")
    ELSE IF ~\E r \in orders : r.id = rowId THEN OrdersUntouched(404, "Order not found")
    ELSE [tableExists |-> TRUE, columns |-> columns,
          orders |-> {IF r.id = rowId THEN [r EXCEPT !.status = newStatus.v] ELSE r :
                         r \in orders},
          nextRowId |-> nextRowId, resp |-> Success("Order status updated")]

\* mutant: the lines that share the order identifier of the line go with it
DeleteOrderWholeOrder(rowId) ==
    IF ~tableExists THEN OrdersUntouched(500, "no such table: orders")
    ELSE IF ~\E r \in orders : r.id = rowId THEN OrdersUntouched(404, "Order not found")
    ELSE [tableExists |-> TRUE, columns |-> columns,
          orders |-> {r \in orders :
                         \A gone \in orders : gone.id = rowId => r.order_id # gone.order_id},
          nextRowId |-> nextRowId, resp |-> Success("Order deleted")]

\* DELETE /admin/orders/<order_id>
DeleteOrderResult(rowId) ==
    IF ~tableExists THEN OrdersUntouched(500, "no such table: orders")
    ELSE IF ~\E r \in orders : r.id = rowId THEN OrdersUntouched(404, "Order not found")
    ELSE [tableExists |-> TRUE, columns |-> columns,
          orders |-> {r \in orders : r.id # rowId},
          nextRowId |-> nextRowId, resp |-> Success("Order deleted")]

\* init_orders_db, reached again through GET /debug/fix-orders-db:
\* CREATE TABLE IF NOT EXISTS leaves an existing table as it is
InitOrdersDbResult ==
    [tableExists |-> TRUE,
     columns |-> IF tableExists THEN columns ELSE InitOrdersColumns,
     orders |-> orders, nextRowId |-> nextRowId,
     resp |-> Success("Orders database reinitialized successfully")]

(***************************************************************************)
(* Requests of the order handlers                                          *)
(***************************************************************************)
\* every key present, a price of 1.00, two units
LogoItem ==
    [name |-> Str("Logo Design"), price |-> Num(1000), quantity |-> Num(2),
     image |-> Str("logo.png"), placement_position |-> Str("center"),
     design_side |-> Str("back"), design_width |-> Num(5), design_height |-> Num(7),
     custom_requirements |-> Str("gold foil")]

\* keys missing or null, a number sent as text, a price of 0.125, no unit
SparseItem ==
    [name |-> Absent, price |-> Num(125), quantity |-> Num(0),
     image |-> Absent, placement_position |-> Null,
     design_side |-> Absent, design_width |-> Str("2"), design_height |-> Absent,
     custom_requirements |-> Null]

\* a price that float() rejects
BadPriceItem ==
    [name |-> Str("Brochure Design"), price |-> Str("abc"), quantity |-> Absent,
     image |-> Absent, placement_position |-> Absent,
     design_side |-> Absent, design_width |-> Absent, design_height |-> Absent,
     custom_requirements |-> Absent]

\* the body of POST /saveOrder
OrderBody(username, items, subtotal, tax, total) ==
    [username |-> username, items |-> items,
     subtotal |-> subtotal, tax |-> tax, total |-> total]

\* JSON bodies of POST /saveOrder: the ones the handler turns away, then
\* alice's orders, with and without the totals the client computed
SaveOrderBodies ==
    {Null}
    \cup {OrderBody(Absent, Absent, Absent, Absent, Absent),
          OrderBody(Absent, Null, Absent, Absent, Absent),
          OrderBody(Null, List(<<>>), Absent, Absent, Absent),
          OrderBody(Str(""), Null, Absent, Absent, Absent)}
    \cup {OrderBody(Absent, List(<<LogoItem>>), Num(2000), Num(360), Num(2360)),
          OrderBody(Str("alice"), Absent, Absent, Absent, Absent),
          OrderBody(Str("alice"), Null, Num(2000), Num(360), Num(2360)),
          OrderBody(Str("alice"), List(<<>>), Num(2000), Num(360), Num(2360)),
          OrderBody(Str("alice"), List(<<LogoItem>>), Num(2000), Num(360), Num(2360)),
          OrderBody(Str("alice"), List(<<SparseItem>>), Absent, Absent, Absent),
          OrderBody(Str("alice"), List(<<BadPriceItem>>), Absent, Absent, Absent),
          OrderBody(Str("alice"), List(<<LogoItem, SparseItem>>),
                    Num(2000), Num(360), Num(2360)),
          OrderBody(Str("alice"), List(<<BadPriceItem, LogoItem>>), Absent, Null, Null)}

(***************************************************************************)
(* Actions of the orders store                                             *)
(***************************************************************************)
\* the seconds a handler may read from the clock
Now == {t \in {clock, clock + 1} : t <= MaxClock}

\* the handler's result becomes the store and the response
AnswerOrders(request, result) ==
    \E r \in {result} :
        /\ r.nextRowId <= MaxRows + 1
        /\ req' = request
        /\ resp' = r.resp
        /\ tableExists' = r.tableExists
        /\ columns' = r.columns
        /\ orders' = r.orders
        /\ nextRowId' = r.nextRowId
        /\ UNCHANGED <<designVars, userVars, boot>>

SaveOrder ==
    \E data \in SaveOrderBodies :
        IF SaveOrderRejection(data).status # 0
        THEN \* answered before the clock and the random number are read
             /\ AnswerOrders([op |-> "save_order"], SaveOrderResult(data, clock, 1000))
             /\ UNCHANGED clock
        ELSE \E t \in Now, rnd \in RandomSuffixes :
                /\ AnswerOrders([op |-> "save_order"], SaveOrderResult(data, t, rnd))
                /\ clock' = t

GetOrders ==
    \E username \in Users : \E rows \in Fetches(username) :
        /\ req' = [op |-> "get_orders", username |-> username]
        /\ resp' = GetOrdersResponse(rows)
        /\ UNCHANGED <<orderVars, designVars, userVars, boot>>

FixOrdersStructure ==
    \E t \in Now :
        /\ AnswerOrders([op |-> "fix_orders_structure"], FixOrdersStructureResult(t))
        /\ clock' = t

FixOrdersTable ==
    /\ AnswerOrders([op |-> "fix_orders_table"], FixOrdersTableResult)
    /\ UNCHANGED clock

FixOrdersColumns ==
    /\ AnswerOrders([op |-> "fix_orders_columns"], FixOrdersColumnsResult)
    /\ UNCHANGED clock

DebugCreateTestOrder ==
    \E username \in Users, t \in Now :
        /\ AnswerOrders([op |-> "debug_create_test_order", username |-> username],
                        DebugCreateTestOrderResult(username, t))
        /\ clock' = t

DebugFixOrdersDb ==
    /\ AnswerOrders([op |-> "debug_fix_orders_db"], InitOrdersDbResult)
    /\ UNCHANGED clock

(***************************************************************************)
(* Designs store                                                           *)
(***************************************************************************)
\* a value bound to the REAL column price: numbers and numeric text are
\* stored as numbers, other text is stored as it is
RealAffinity(v) == IF Convertible(v) THEN Num(ToNumber(v)) ELSE v

PlaceholderPng == Str("iVBORw0KGgo")

\* the rows init_designs_db inserts
SampleDesigns ==
    {[id |-> 1, name |-> Str("Business Card Premium"), price |-> Num(399),
      tags |-> Str("business,professional,card"),
      description |-> Str("Professional business card design with modern layout"),
      image_data |-> PlaceholderPng, image_type |-> Str("image/png")],
     [id |-> 2, name |-> Str("Flyer Design"), price |-> Num(599),
      tags |-> Str("marketing,flyer,promotional"),
      description |-> Str("Eye-catching flyer design for promotions"),
      image_data |-> PlaceholderPng, image_type |-> Str("image/png")],
     [id |-> 3, name |-> Str("Logo Design"), price |-> Num(1299),
      tags |-> Str("branding,logo,custom"),
      description |-> Str("Custom logo creation for your brand"),
      image_data |-> PlaceholderPng, image_type |-> Str("image/png")],
     [id |-> 4, name |-> Str("Brochure Design"), price |-> Num(899),
      tags |-> Str("marketing,brochure,print"),
      description |-> Str("Tri-fold brochure design"),
      image_data |-> PlaceholderPng, image_type |-> Str("image/png")],
     [id |-> 5, name |-> Str("Social Media Post"), price |-> Num(299),
      tags |-> Str("social-media,digital,post"),
      description |-> Str("Engaging social media graphics"),
      image_data |-> PlaceholderPng, image_type |-> Str("image/png")]}

\* the first id AUTOINCREMENT hands out after the samples
FirstNewDesignId == Cardinality(SampleDesigns) + 1

\* the designs store left alone, with a failure response
DesignsUntouched(status, message) ==
    [designs |-> designs, nextDesignId |-> nextDesignId,
     resp |-> [success |-> FALSE, status |-> status, message |-> message]]

\* mutant: the last image of the request is taken
FirstImageLast(body) ==
    LET images == Get(body, "images", List(<<>>))
    IN  IF images # Null /\ Len(images.v) > 0 THEN images.v[Len(images.v)]
        ELSE [image_data |-> Absent, image_type |-> Absent]

\* images[0] of the request, when there is one
FirstImage(body) ==
    LET images == Get(body, "images", List(<<>>))
    IN  IF images # Null /\ Len(images.v) > 0 THEN images.v[1]
        ELSE [image_data |-> Absent, image_type |-> Absent]

HasImages(body) ==
    LET images == Get(body, "images", List(<<>>))
    IN  images # Null /\ Len(images.v) > 0

\* a positive whole number
PositiveInt(v) == v.k = "num" /\ v.v > 0

\* the price of a width x height design at 10 per unit of area
SizePrice(body) == Num(body.width.v * body.height.v * 10)

\* mutant: the price derived from the dimensions when the request has them
SaveDesignPriceFromSize(body) ==
    IF PositiveInt(body.width) /\ PositiveInt(body.height)
    THEN SizePrice(body)
    ELSE RealAffinity(Get(body, "price", Null))

\* the price save_design binds to the price column: the request's price
SaveDesignPrice(body) == RealAffinity(Get(body, "price", Null))

\* mutant: the description is not checked
SaveDesignMissingNameOrPrice(body) ==
    \/ ~Truthy(Get(body, "name", Null))
    \/ ~Truthy(Get(body, "price", Null))

\* `not name or not price or not description`
SaveDesignMissing(body) ==
    \/ ~Truthy(Get(body, "name", Null))
    \/ ~Truthy(Get(body, "price", Null))
    \/ ~Truthy(Get(body, "description", Null))

\* POST /admin/save-design: update when the body names an id, insert otherwise
SaveDesignResult(body) ==
    IF body = Null THEN DesignsUntouched(400, "No data received")
    ELSE IF SaveDesignMissing(body) THEN DesignsUntouched(400, "Missing required fields")
    ELSE
    LET designId == Get(body, "id", Null)
        name == Get(body, "name", Null)
        tags == Get(body, "tags", Str(""))
        description == Get(body, "description", Null)
        image_data == Get(FirstImage(body), "image_data", Null)
        image_type == Get(FirstImage(body), "image_type", Null)
    IN  IF Truthy(designId)
        THEN \* UPDATE ... WHERE id=?: no row changes when the id is unknown
             [designs |->
                 {IF d.id # designId.v THEN d
                  ELSE IF Truthy(image_data) /\ Truthy(image_type)
                  THEN [d EXCEPT !.name = name, !.price = SaveDesignPrice(body),
                                 !.tags = tags, !.description = description,
                                 !.image_data = image_data, !.image_type = image_type]
                  ELSE [d EXCEPT !.name = name, !.price = SaveDesignPrice(body),
                                 !.tags = tags, !.description = description] :
                  d \in designs},
              nextDesignId |-> nextDesignId,
              resp |-> [success |-> TRUE, status |-> 200,
                        message |-> "Design updated successfully",
                        design_id |-> designId.v]]
        ELSE [designs |-> designs \cup
                 {[id |-> nextDesignId, name |-> name, price |-> SaveDesignPrice(body),
                   tags |-> tags, description |-> description,
                   image_data |-> image_data, image_type |-> image_type]},
              nextDesignId |-> nextDesignId + 1,
              resp |-> [success |-> TRUE, status |-> 200,
                        message |-> "Design saved successfully",
                        design_id |-> nextDesignId]]

\* mutant: the deletion is not restricted to the design of the request
SaveDesignPreviewsOfAll(body) ==
    IF body = Null \/ SaveDesignMissing(body) THEN previews
    ELSE IF Truthy(Get(body, "id", Null)) /\ Truthy(Get(body, "delete_all_previews", Null))
    THEN {}
    ELSE previews

\* the design_previews table after POST /admin/save-design: an update that
\* passed the checks and carries a true delete_all_previews deletes the
\* previews of the id it names
SaveDesignPreviews(body) ==
    IF body = Null \/ SaveDesignMissing(body) THEN previews
    ELSE IF Truthy(Get(body, "id", Null)) /\ Truthy(Get(body, "delete_all_previews", Null))
    THEN {p \in previews : p.design_id # body.id.v}
    ELSE previews

\* `not all([name, price])`, then `not images`
AddDesignMissing(body) ==
    \/ ~Truthy(Get(body, "name", Null))
    \/ ~Truthy(Get(body, "price", Null))
    \/ ~HasImages(body)

\* mutant: the price derived from the dimensions when the request has them
FloatPriceFromSize(body) ==
    IF PositiveInt(body.width) /\ PositiveInt(body.height)
    THEN SizePrice(body)
    ELSE Num(ToNumber(Get(body, "price", Null)))

\* the price add_design and update_design bind: float(price)
FloatPrice(body) == Num(ToNumber(Get(body, "price", Null)))

\* POST /admin/designs
AddDesignResult(body) ==
    IF body = Null THEN DesignsUntouched(400, "No data received")
    ELSE IF AddDesignMissing(body)
    THEN DesignsUntouched(400, IF ~Truthy(Get(body, "name", Null))
                                  \/ ~Truthy(Get(body, "price", Null))
                               THEN "Name and price are required"
                               ELSE "At least one image is required")
    \* float(price) raises on text that is no number
    ELSE IF ~Convertible(Get(body, "price", Null))
    THEN DesignsUntouched(500, "Server error")
    ELSE [designs |-> designs \cup
             {[id |-> nextDesignId, name |-> Get(body, "name", Null),
               price |-> FloatPrice(body),
               tags |-> Get(body, "tags", Str("")),
               description |-> Get(body, "description", Str("")),
               image_data |-> Get(FirstImage(body), "image_data", Null),
               image_type |-> Get(FirstImage(body), "image_type", Str("image/jpeg"))]},
          nextDesignId |-> nextDesignId + 1,
          resp |-> [success |-> TRUE, status |-> 200,
                    message |-> "Design added successfully",
                    design_id |-> nextDesignId]]

\* the value update_design leaves in a column: the request's when the key is
\* there and not null, the stored one otherwise
Updated(body, key, stored) ==
    IF Get(body, key, Null) # Null THEN Get(body, key, Null) ELSE stored

\* PUT /admin/designs/<design_id>
UpdateDesignResult(designId, body) ==
    \* data.get on a missing body raises
    IF body = Null THEN DesignsUntouched(500, "'NoneType' object has no attribute 'get'")
    ELSE IF ~\E d \in designs : d.id = designId
    THEN DesignsUntouched(404, "Design not found")
    ELSE IF Get(body, "price", Null) # Null /\ ~Convertible(Get(body, "price", Null))
    THEN DesignsUntouched(500, "could not convert string to float")
    ELSE [designs |->
             {IF d.id # designId THEN d
              ELSE [d EXCEPT
                       !.name = Updated(body, "name", d.name),
                       !.price = IF Get(body, "price", Null) # Null
                                 THEN FloatPrice(body) ELSE d.price,
                       !.tags = Updated(body, "tags", d.tags),
                       !.description = Updated(body, "description", d.description),
                       !.image_data = IF HasImages(body)
                                      THEN Get(FirstImage(body), "image_data", Null)
                                      ELSE d.image_data,
                       !.image_type = IF HasImages(body)
                                      THEN Get(FirstImage(body), "image_type", Null)
                                      ELSE d.image_type] :
              d \in designs},
          nextDesignId |-> nextDesignId,
          resp |-> Success("Design updated successfully")]

\* DELETE /admin/designs/<design_id>: the design row goes; no connection
\* sets PRAGMA foreign_keys, so SQLite does not apply the ON DELETE CASCADE
\* of design_previews and the previews stay
DeleteDesignResult(designId) ==
    IF ~\E d \in designs : d.id = designId
    THEN DesignsUntouched(404, "Design not found")
    ELSE [designs |-> {d \in designs : d.id # designId},
          nextDesignId |-> nextDesignId,
          resp |-> Success("Design deleted successfully")]

\* the design_previews table left alone, with a failure response
PreviewsUntouched(status, message) ==
    [previews |-> previews, nextPreviewId |-> nextPreviewId,
     resp |-> [success |-> FALSE, status |-> status, message |-> message]]

\* max_order = SELECT MAX(sort_order) ... or -1: no preview and a largest
\* sort_order of 0 both give -1
MaxOrder(designId) ==
    LET taken == {p.sort_order : p \in {q \in previews : q.design_id = designId}}
        largest == IF taken = {} THEN 0
                   ELSE CHOOSE n \in taken : \A m \in taken : m <= n
    IN  IF largest # 0 THEN largest ELSE -1

\* POST /admin/designs/<design_id>/previews: the design is not looked up
AddDesignPreviewResult(designId, body) ==
    IF body = Null THEN PreviewsUntouched(500, "'NoneType' object has no attribute 'get'")
    ELSE IF ~Truthy(Get(body, "preview_data", Null))
    THEN PreviewsUntouched(400, "Preview image data is required")
    ELSE [previews |-> previews \cup
             {[id |-> nextPreviewId, design_id |-> designId,
               preview_data |-> Get(body, "preview_data", Null),
               preview_type |-> Get(body, "preview_type", Str("image/jpeg")),
               sort_order |-> MaxOrder(designId) + 1]},
          nextPreviewId |-> nextPreviewId + 1,
          resp |-> [success |-> TRUE, status |-> 200,
                    message |-> "Preview image added successfully",
                    preview_id |-> nextPreviewId]]

(***************************************************************************)
(* Requests and actions of the designs store                               *)
(***************************************************************************)
\* most designs the admin adds to the samples
MaxNewDesigns == 1

PosterPng == [image_data |-> Str("cG9zdGVy"), image_type |-> Str("image/png")]
BannerJpg == [image_data |-> Str("YmFubmVy"), image_type |-> Absent]

DesignBody(name, price, description, images, width, height) ==
    [id |-> Absent, name |-> name, price |-> price, description |-> description,
     tags |-> Absent, images |-> images, delete_all_previews |-> Absent,
     width |-> width, height |-> height]

\* width and height as a request may send them: a 1 x 2 and a 2 x 2 design,
\* none, and the invalid ones (zero, negative, text)
Dimensions ==
    {<<Num(1), Num(2)>>, <<Num(2), Num(2)>>, <<Absent, Absent>>,
     <<Num(0), Num(2)>>, <<Num(2), Num(-1)>>, <<Str("x"), Num(2)>>}

\* the prices a request may send: none, zero, numbers, numeric and other text
Prices == {Absent, Num(0), Num(20), Num(40), Str("20"), Str("abc")}

\* the bodies the admin sends in the runs explored
SentDesignBodies ==
    {Null,
     DesignBody(Str("Poster"), Num(20), Str("A2 poster"), List(<<PosterPng>>), Num(1), Num(2)),
     DesignBody(Str("Poster"), Num(40), Str("A2 poster"), Absent, Num(1), Num(2)),
     DesignBody(Str("Poster"), Str("20"), Str("A2 poster"), List(<<BannerJpg, PosterPng>>),
                Num(0), Num(2)),
     DesignBody(Str("Poster"), Str("abc"), Str("A2 poster"), List(<<PosterPng>>),
                Str("x"), Num(2)),
     DesignBody(Absent, Num(20), Str("A2 poster"), List(<<PosterPng>>), Num(1), Num(2)),
     DesignBody(Str("Poster"), Num(0), Str("A2 poster"), Absent, Num(2), Num(2)),
     DesignBody(Str("Poster"), Num(20), Absent, List(<<PosterPng>>), Num(1), Num(2))}

\* the design ids requests name: the first added one and one never handed out
DesignIds == {FirstNewDesignId, FirstNewDesignId + MaxNewDesigns}

WithId(body, id) == IF body = Null THEN Null ELSE [body EXCEPT !.id = id]

\* the handler's result becomes the store and the response
AnswerDesigns(request, result) ==
    \E r \in {result} :
        /\ r.nextDesignId <= FirstNewDesignId + MaxNewDesigns
        /\ req' = request
        /\ resp' = r.resp
        /\ designs' = r.designs
        /\ nextDesignId' = r.nextDesignId
        /\ UNCHANGED <<orderVars, userVars, boot>>

SaveDesign ==
    \E body \in SentDesignBodies, id \in {Absent} \cup {Num(i) : i \in DesignIds} :
        /\ AnswerDesigns([op |-> "save_design", body |-> WithId(body, id)],
                         SaveDesignResult(WithId(body, id)))
        /\ previews' = SaveDesignPreviews(WithId(body, id))
        /\ UNCHANGED nextPreviewId

AddDesign ==
    \E body \in SentDesignBodies :
        /\ AnswerDesigns([op |-> "add_design", body |-> body], AddDesignResult(body))
        /\ UNCHANGED <<previews, nextPreviewId>>

UpdateDesign ==
    \E designId \in DesignIds, body \in SentDesignBodies :
        /\ AnswerDesigns([op |-> "update_design", id |-> designId, body |-> body],
                         UpdateDesignResult(designId, body))
        /\ UNCHANGED <<previews, nextPreviewId>>

(***************************************************************************)
(* Initial state and specifications                                        *)
(***************************************************************************)
\* the orders table at start-up: none (init_databases runs only under
\* __main__, and init_orders_db can fail),
\* the one init_orders_db creates, or one an earlier version left in the
\* file, from before the customization columns
StartShapes ==
    {[tableExists |-> FALSE, columns |-> {}],
     [tableExists |-> TRUE, columns |-> InitOrdersColumns],
     [tableExists |-> TRUE, columns |-> BaseColumns]}

\* no init function has been called
NotBooting == [pc |-> "idle", fn |-> 0, attempt |-> 0, returned |-> <<>>, last |-> "none"]

NoRequest == [op |-> "none"]
NoResponse == [success |-> TRUE, status |-> 200, message |-> "none"]

Init ==
    /\ \E shape \in StartShapes :
        /\ tableExists = shape.tableExists
        /\ columns = shape.columns
    /\ orders = {}
    /\ nextRowId = 1
    /\ clock = 0
    /\ designs = SampleDesigns
    /\ nextDesignId = FirstNewDesignId
    /\ previews = {}
    /\ nextPreviewId = 1
    /\ cart = {}
    /\ nextCartId = 1
    /\ wishlist = {}
    /\ nextWishlistId = 1
    /\ boot = NotBooting
    /\ req = NoRequest
    /\ resp = NoResponse

Next ==
    \/ SaveOrder
    \/ GetOrders
    \/ FixOrdersStructure
    \/ FixOrdersTable
    \/ FixOrdersColumns
    \/ DebugCreateTestOrder
    \/ DebugFixOrdersDb

Spec == Init /\ [][Next]_vars

\* the admin's design requests alone
DesignNext ==
    \/ SaveDesign
    \/ AddDesign
    \/ UpdateDesign

\* the orders store as init_orders_db leaves it
DesignInit == Init /\ tableExists /\ columns = InitOrdersColumns

DesignSpec == DesignInit /\ [][DesignNext]_vars

(***************************************************************************)
(* The designs store with its preview images (PreviewSpec)                 *)
(***************************************************************************)
\* most preview images the admin adds
MaxPreviews == 2

\* the bodies of POST /admin/designs/<id>/previews: none, no data, an image
PreviewBodies ==
    {Null,
     [preview_data |-> Absent, preview_type |-> Absent],
     [preview_data |-> Str("cHJldmlldw=="), preview_type |-> Absent]}

\* a design update with and without delete_all_previews, with a complete
\* image and without image, and a body that fails the checks
FlaggedDesignBodies ==
    {[DesignBody(Str("Poster"), Num(20), Str("A2 poster"), images, Absent, Absent)
         EXCEPT !.delete_all_previews = flag] :
        images \in {Absent, List(<<PosterPng>>)}, flag \in {Absent, JsonTrue}}
    \cup {[DesignBody(Str("Poster"), Num(20), Absent, Absent, Absent, Absent)
              EXCEPT !.delete_all_previews = JsonTrue]}

SaveDesignWithFlag ==
    \E body \in FlaggedDesignBodies, id \in {Absent} \cup {Num(i) : i \in DesignIds} :
        /\ AnswerDesigns([op |-> "save_design", body |-> WithId(body, id)],
                         SaveDesignResult(WithId(body, id)))
        /\ previews' = SaveDesignPreviews(WithId(body, id))
        /\ UNCHANGED nextPreviewId

DeleteDesign ==
    \E designId \in DesignIds :
        /\ AnswerDesigns([op |-> "delete_design", id |-> designId],
                         DeleteDesignResult(designId))
        /\ UNCHANGED <<previews, nextPreviewId>>

AddDesignPreview ==
    \E designId \in DesignIds, body \in PreviewBodies :
        \E r \in {AddDesignPreviewResult(designId, body)} :
            /\ r.nextPreviewId <= MaxPreviews + 1
            /\ req' = [op |-> "add_design_preview", id |-> designId, body |-> body]
            /\ resp' = r.resp
            /\ previews' = r.previews
            /\ nextPreviewId' = r.nextPreviewId
            /\ UNCHANGED <<orderVars, designs, nextDesignId, userVars, boot>>

PreviewNext ==
    \/ SaveDesignWithFlag
    \/ DeleteDesign
    \/ AddDesignPreview

PreviewSpec == DesignInit /\ [][PreviewNext]_vars

(***************************************************************************)
(* The orders store with the admin's requests (AdminSpec)                  *)
(***************************************************************************)
\* one unit, customization fields sent empty or null
PlainItem ==
    [name |-> Str("Flyer Design"), price |-> Num(599000), quantity |-> Num(1),
     image |-> Str("flyer.png"), placement_position |-> Null,
     design_side |-> Str(""), design_width |-> Num(0), design_height |-> Str("2"),
     custom_requirements |-> Str("")]

\* the orders alice places while the admin works on the store
PlacedOrderBodies ==
    {OrderBody(Str("alice"), List(<<LogoItem, PlainItem>>),
               Num(2000), Num(360), Num(2360)),
     OrderBody(Str("alice"), List(<<PlainItem>>), Absent, Absent, Absent),
     OrderBody(Str("alice"), List(<<BadPriceItem, LogoItem>>), Absent, Null, Null)}

\* the row ids the admin names: the ids rows can have, and one no row has
RowIds == 1..(MaxRows + 1)

\* data.get('status') of PUT /admin/orders/<id>: missing, or a new status
SentStatuses == {Absent, Str("Processing")}

\* POST /saveOrder, the request kept with its body
SaveOrderWithBody ==
    \E data \in PlacedOrderBodies, t \in Now, rnd \in RandomSuffixes :
        /\ AnswerOrders([op |-> "save_order", body |-> data],
                        SaveOrderResult(data, t, rnd))
        /\ clock' = t

UpdateOrderStatus ==
    \E rowId \in RowIds, newStatus \in SentStatuses :
        /\ AnswerOrders([op |-> "update_order_status", id |-> rowId, status |-> newStatus],
                        UpdateOrderStatusResult(rowId, newStatus))
        /\ UNCHANGED clock

DeleteOrder ==
    \E rowId \in RowIds :
        /\ AnswerOrders([op |-> "delete_order", id |-> rowId], DeleteOrderResult(rowId))
        /\ UNCHANGED clock

AdminNext ==
    \/ SaveOrderWithBody
    \/ GetOrders
    \/ UpdateOrderStatus
    \/ DeleteOrder

AdminSpec == Init /\ [][AdminNext]_vars

(***************************************************************************)
(* The orders store with orders whose lines fail (PlacingSpec)             *)
(***************************************************************************)
\* an element of the items list that is no object
TextItem == Str("poster")

\* orders with a line that cannot be stored after one that can: a price that
\* does not convert, an item that is no object; an order of one bad line;
\* and orders that store every line
FailingOrderBodies ==
    {OrderBody(Str("alice"), List(<<LogoItem, BadPriceItem>>), Absent, Absent, Absent),
     OrderBody(Str("alice"), List(<<LogoItem, TextItem>>), Absent, Absent, Absent),
     OrderBody(Str("alice"), List(<<BadPriceItem>>), Absent, Absent, Absent),
     OrderBody(Str("bob"), List(<<PlainItem>>), Absent, Absent, Absent)}

\* POST /saveOrder with one of these bodies
SaveOrderWithFailures ==
    \E data \in FailingOrderBodies, t \in Now, rnd \in RandomSuffixes :
        /\ AnswerOrders([op |-> "save_order", body |-> data],
                        SaveOrderResult(data, t, rnd))
        /\ clock' = t

PlacingNext ==
    \/ SaveOrderWithFailures
    \/ FixOrdersColumns
    \/ DeleteOrder

PlacingSpec == Init /\ [][PlacingNext]_vars

(***************************************************************************)
(* Start-up: init_databases and the four init functions (InitSpec)         *)
(***************************************************************************)
\* max_retries of init_users_db, init_orders_db and init_admin_db
MaxRetries == 3

\* the list init_databases walks through
InitFunctions == <<"init_users_db", "init_orders_db", "init_admin_db", "init_designs_db">>

\* what one pass through the body of an init function ends with: no
\* exception, sqlite3.OperationalError (database is locked, unable to open
\* database file), or an exception of another class (sqlite3.DatabaseError:
\* file is not a database)
AttemptOutcomes == {"ok", "OperationalError", "DatabaseError"}

\* mutant: the first OperationalError makes the function give up
InitStepNoRetry(fn, attempt, outcome) ==
    IF outcome = "ok" THEN [do |-> "return", value |-> TRUE]
    ELSE IF fn = "init_designs_db" THEN [do |-> "return", value |-> FALSE]
    ELSE IF outcome # "OperationalError" THEN [do |-> "raise", value |-> FALSE]
    ELSE [do |-> "return", value |-> FALSE]

\* what an init function does when attempt number `attempt` (from 0) of its
\* body ended with `outcome`: init_designs_db has no loop and catches every
\* exception; the other three catch sqlite3.OperationalError only, sleep and
\* go round again unless it was the last attempt
InitStep(fn, attempt, outcome) ==
    IF outcome = "ok" THEN [do |-> "return", value |-> TRUE]
    ELSE IF fn = "init_designs_db" THEN [do |-> "return", value |-> FALSE]
    ELSE IF outcome # "OperationalError" THEN [do |-> "raise", value |-> FALSE]
    ELSE IF attempt < MaxRetries - 1 THEN [do |-> "retry", value |-> FALSE]
    ELSE [do |-> "return", value |-> FALSE]

\* the stores after the body of init function fn ran to its end: CREATE
\* TABLE IF NOT EXISTS leaves the tables there are; init_designs_db removes
\* the designs file and creates it again with the samples
AfterInit(fn) ==
    IF fn = "init_orders_db"
    THEN /\ tableExists' = TRUE
         /\ columns' = IF tableExists THEN columns ELSE InitOrdersColumns
         /\ UNCHANGED <<orders, nextRowId, clock, designVars, userVars>>
    ELSE IF fn = "init_designs_db"
    THEN /\ designs' = SampleDesigns
         /\ nextDesignId' = FirstNewDesignId
         /\ previews' = {}
         /\ nextPreviewId' = 1
         /\ UNCHANGED <<orderVars, userVars>>
    ELSE UNCHANGED <<orderVars, designVars, userVars>>

\* the init function returned `value` to init_databases, which calls the
\* next function of its list, or returns after the last
InitReturned(value) ==
    IF boot.fn < Len(InitFunctions)
    THEN [pc |-> "try", fn |-> boot.fn + 1, attempt |-> 0,
          returned |-> Append(boot.returned, value), last |-> boot.last]
    ELSE [pc |-> "returned", fn |-> boot.fn, attempt |-> boot.attempt,
          returned |-> Append(boot.returned, value), last |-> boot.last]

\* the request handlers run while no init_databases is under way
Serving == boot.pc \in {"idle", "returned"}

\* the program is started: init_databases calls the first init function
InitDatabases ==
    /\ boot.pc \in {"idle", "returned", "raised"}
    /\ boot' = [pc |-> "try", fn |-> 1, attempt |-> 0, returned |-> <<>>, last |-> "none"]
    /\ UNCHANGED <<orderVars, designVars, userVars, req, resp>>

\* one pass through the body of the init function that is running
InitAttempt ==
    /\ boot.pc = "try"
    /\ \E outcome \in AttemptOutcomes :
          LET step == InitStep(InitFunctions[boot.fn], boot.attempt, outcome)
              seen == [boot EXCEPT !.last = outcome]
          IN  /\ IF outcome = "ok" THEN AfterInit(InitFunctions[boot.fn])
                 ELSE UNCHANGED <<orderVars, designVars, userVars>>
              /\ boot' = CASE step.do = "return" -> [InitReturned(step.value) EXCEPT !.last = outcome]
                           [] step.do = "retry" -> [seen EXCEPT !.pc = "sleep"]
                           [] step.do = "raise" -> [seen EXCEPT !.pc = "raised"]
    /\ UNCHANGED <<req, resp>>

\* time.sleep(retry_delay), then the next round of the loop
InitSleep ==
    /\ boot.pc = "sleep"
    /\ boot' = [boot EXCEPT !.pc = "try", !.attempt = @ + 1]
    /\ UNCHANGED <<orderVars, designVars, userVars, req, resp>>

\* the admin adds a design while the program serves requests
AddDesignServing == Serving /\ AddDesign

InitNext ==
    \/ InitDatabases
    \/ InitAttempt
    \/ InitSleep
    \/ AddDesignServing

\* the body of an init function and its sleep come to an end
InitSpec ==
    Init /\ [][InitNext]_vars /\ WF_vars(InitAttempt) /\ WF_vars(InitSleep)

(***************************************************************************)
(* Users store: cart and wishlist (UserSpec)                               *)
(***************************************************************************)
\* most rows the user_cart table ever receives (bounds the AUTOINCREMENT id)
MaxCartRows == 3
\* most rows the user_wishlist table ever receives
MaxWishlistRows == 1

\* the row one INSERT INTO user_cart stores for `item`
CartRow(id, username, item) ==
    [id |-> id,
     username |-> username,
     design_name |-> Get(item, "name", Null),
     price |-> ToNumber(Get(item, "price", Num(0))),
     quantity |-> ToNumber(Get(item, "quantity", Num(1))),
     image_url |-> Get(item, "image", Str("")),
     placement_position |-> Get(item, "placement_position", Str("")),
     design_side |-> Get(item, "design_side", Str("front")),
     design_width |-> Num(ToNumber(Get(item, "design_width", Num(0)))),
     design_height |-> Num(ToNumber(Get(item, "design_height", Num(0)))),
     custom_requirements |-> Get(item, "custom_requirements", Str(""))]

\* the row one INSERT INTO user_wishlist stores for `item`
WishlistRow(id, username, item) ==
    [id |-> id,
     username |-> username,
     design_name |-> Get(item, "name", Null),
     price |-> ToNumber(Get(item, "price", Num(0))),
     image_url |-> Get(item, "image", Str(""))]

\* the loop over the cart items: an item that is no object or does not
\* convert is skipped, the others are inserted one by one
RECURSIVE InsertCartItems(_, _, _, _)
InsertCartItems(items, index, username, acc) ==
    IF index > Len(items) THEN acc
    ELSE IF IsObject(items[index]) /\ ItemConverts(items[index])
         THEN InsertCartItems(items, index + 1, username,
                  [rows |-> acc.rows \cup {CartRow(acc.nextId, username, items[index])},
                   nextId |-> acc.nextId + 1,
                   saved_count |-> acc.saved_count + 1])
         ELSE InsertCartItems(items, index + 1, username, acc)

\* the loop over the wishlist items: float(price) is the only conversion
RECURSIVE InsertWishlistItems(_, _, _, _)
InsertWishlistItems(items, index, username, acc) ==
    IF index > Len(items) THEN acc
    ELSE IF IsObject(items[index]) /\ Convertible(Get(items[index], "price", Num(0)))
         THEN InsertWishlistItems(items, index + 1, username,
                  [rows |-> acc.rows \cup {WishlistRow(acc.nextId, username, items[index])},
                   nextId |-> acc.nextId + 1,
                   saved_count |-> acc.saved_count + 1])
         ELSE InsertWishlistItems(items, index + 1, username, acc)

\* mutant: the cart of the user is not cleared before the items are inserted
ReplaceCartAppending(username, items) ==
    InsertCartItems(items, 1, username,
        [rows |-> cart, nextId |-> nextCartId, saved_count |-> 0])

\* DELETE FROM user_cart WHERE username=?, then the loop, then the commit
ReplaceCart(username, items) ==
    InsertCartItems(items, 1, username,
        [rows |-> {r \in cart : r.username # username},
         nextId |-> nextCartId, saved_count |-> 0])

\* DELETE FROM user_wishlist WHERE username=?, then the loop, then the commit
ReplaceWishlist(username, items) ==
    InsertWishlistItems(items, 1, username,
        [rows |-> {r \in wishlist : r.username # username},
         nextId |-> nextWishlistId, saved_count |-> 0])

\* the users store left alone, with a failure response
UsersUntouched(status, message) ==
    [cart |-> cart, nextCartId |-> nextCartId,
     wishlist |-> wishlist, nextWishlistId |-> nextWishlistId,
     resp |-> [success |-> FALSE, status |-> status, message |-> message]]

\* mutant: a missing cart or wishlist is taken as the empty list
SyncUserDataEmptyDefault(data) ==
    IF data = Null THEN UsersUntouched(500, "'NoneType' object has no attribute 'get'")
    ELSE IF ~Truthy(Get(data, "username", Null)) THEN UsersUntouched(400, "Username required")
    ELSE
    LET cart_data == Get(data, "cart", Null)
        wishlist_data == Get(data, "wishlist", Null)
        c == ReplaceCart(data.username.v, IF cart_data = Null THEN <<>> ELSE cart_data.v)
        w == ReplaceWishlist(data.username.v,
                             IF wishlist_data = Null THEN <<>> ELSE wishlist_data.v)
    IN  [cart |-> c.rows, nextCartId |-> c.nextId,
         wishlist |-> w.rows, nextWishlistId |-> w.nextId,
         resp |-> [success |-> TRUE, status |-> 200,
                   message |-> "User data synced successfully",
                   cart_synced |-> Num(c.saved_count),
                   wishlist_synced |-> Num(w.saved_count)]]

\* POST /syncUserData: cart and wishlist are each synced only when the body
\* carries them (a null counts as missing)
SyncUserDataResult(data) ==
    IF data = Null THEN UsersUntouched(500, "'NoneType' object has no attribute 'get'")
    ELSE IF ~Truthy(Get(data, "username", Null)) THEN UsersUntouched(400, "Username required")
    ELSE
    LET cart_data == Get(data, "cart", Null)
        wishlist_data == Get(data, "wishlist", Null)
        c == IF cart_data # Null THEN ReplaceCart(data.username.v, cart_data.v)
             ELSE [rows |-> cart, nextId |-> nextCartId, saved_count |-> 0]
        w == IF wishlist_data # Null THEN ReplaceWishlist(data.username.v, wishlist_data.v)
             ELSE [rows |-> wishlist, nextId |-> nextWishlistId, saved_count |-> 0]
    IN  [cart |-> c.rows, nextCartId |-> c.nextId,
         wishlist |-> w.rows, nextWishlistId |-> w.nextId,
         resp |-> [success |-> TRUE, status |-> 200,
                   message |-> "User data synced successfully",
                   cart_synced |-> IF cart_data # Null THEN Num(c.saved_count)
                                   ELSE Str("skipped"),
                   wishlist_synced |-> IF wishlist_data # Null THEN Num(w.saved_count)
                                       ELSE Str("skipped")]]

\* POST /saveCart: len(cart_items) is printed before the username is
\* checked: it raises on a null cart
SaveCartResult(data) ==
    IF data = Null THEN UsersUntouched(500, "'NoneType' object has no attribute 'get'")
    ELSE IF Get(data, "cart", List(<<>>)) = Null
    THEN UsersUntouched(500, "object of type 'NoneType' has no len()")
    ELSE IF ~Truthy(Get(data, "username", Null)) THEN UsersUntouched(400, "Username required")
    ELSE
    LET c == ReplaceCart(data.username.v, Get(data, "cart", List(<<>>)).v)
    IN  [cart |-> c.rows, nextCartId |-> c.nextId,
         wishlist |-> wishlist, nextWishlistId |-> nextWishlistId,
         resp |-> [success |-> TRUE, status |-> 200, message |-> "Cart saved",
                   saved_count |-> c.saved_count]]

\* the rows of a table in the order of their ids, as SELECT * scans them
ById(rows) ==
    CHOOSE f \in [1..Cardinality(rows) -> rows] :
        \A i \in 1..Cardinality(rows) : \A j \in 1..Cardinality(rows) :
            i < j => f[i].id < f[j].id

\* an entry of the cart list get_cart returns
CartEntry(row) ==
    [name |-> row.design_name, price |-> Num(row.price), quantity |-> Num(row.quantity),
     image |-> row.image_url, placement_position |-> row.placement_position,
     design_side |-> row.design_side, design_width |-> row.design_width,
     design_height |-> row.design_height, custom_requirements |-> row.custom_requirements]

\* GET /getCart/<username>
GetCartResponse(username) ==
    LET rows == ById({r \in cart : r.username = username})
    IN  [success |-> TRUE, status |-> 200,
         cart |-> [i \in 1..Len(rows) |-> CartEntry(rows[i])]]

\* the body of POST /syncUserData and POST /saveCart
UserBody(username, cartItems, wishlistItems) ==
    [username |-> username, cart |-> cartItems, wishlist |-> wishlistItems]

\* the carts alice sends: none, null, empty, one item, and an item that
\* converts between one that does not and one that is no object
SentCarts ==
    {Absent, Null, List(<<>>), List(<<LogoItem>>),
     List(<<BadPriceItem, PlainItem, TextItem>>)}

\* the wishlists alice sends
SentWishlists == {Absent, List(<<>>), List(<<LogoItem>>)}

\* the bodies of POST /saveCart: no body, no username, and the carts of
\* alice and of bob
SaveCartBodies ==
    {Null, UserBody(Absent, List(<<LogoItem>>), Absent),
     UserBody(Str("bob"), List(<<LogoItem>>), Absent)}
        \cup {UserBody(Str("alice"), c, Absent) : c \in SentCarts}

\* the bodies of POST /syncUserData
SyncUserDataBodies ==
    {Null, UserBody(Absent, List(<<LogoItem>>), List(<<LogoItem>>)),
     UserBody(Str("bob"), List(<<LogoItem>>), Absent),
     UserBody(Str("bob"), Absent, List(<<LogoItem>>))}
        \cup {UserBody(Str("alice"), c, w) :
                 c \in SentCarts \ {List(<<LogoItem>>)}, w \in SentWishlists}

\* the handler's result becomes the store and the response
AnswerUsers(request, result) ==
    \E r \in {result} :
        /\ r.nextCartId <= MaxCartRows + 1
        /\ r.nextWishlistId <= MaxWishlistRows + 1
        /\ req' = request
        /\ resp' = r.resp
        /\ cart' = r.cart
        /\ nextCartId' = r.nextCartId
        /\ wishlist' = r.wishlist
        /\ nextWishlistId' = r.nextWishlistId
        /\ UNCHANGED <<orderVars, designVars, boot>>

SaveCart ==
    \E data \in SaveCartBodies :
        AnswerUsers([op |-> "save_cart", body |-> data], SaveCartResult(data))

SyncUserData ==
    \E data \in SyncUserDataBodies :
        AnswerUsers([op |-> "sync_user_data", body |-> data], SyncUserDataResult(data))

GetCart ==
    \E username \in Users :
        /\ req' = [op |-> "get_cart", username |-> username]
        /\ resp' = GetCartResponse(username)
        /\ UNCHANGED <<orderVars, designVars, userVars, boot>>

UserNext ==
    \/ SaveCart
    \/ SyncUserData
    \/ GetCart

UserSpec == Init /\ [][UserNext]_vars

(***************************************************************************)
(* Properties of the design handlers (checked under DesignSpec)            *)
(***************************************************************************)
DesignWrites == {"save_design", "add_design", "update_design"}

\* the rows the last design request wrote
Written ==
    IF req.op = "update_design" THEN {d \in designs : d.id = req.id}
    ELSE {d \in designs : d.id = resp.design_id}

\* the last request was a design write that succeeded
DesignWritten == req.op \in DesignWrites /\ resp.success

\* a value Python treats as missing: no key, null, empty text, zero
Falsy(v) == v = Absent \/ v = Null \/ v = Str("") \/ v = Num(0)

\* a dimension that is zero, negative or no integer
BadDimension(v) ==
    \/ v.k = "num" /\ v.v <= 0
    \/ v.k = "str" /\ v.v \notin NumericStrings

\* C1 as claimed: a create or update that supplies a positive width w and
\* height h stores the price w * h * 10.
C1_PriceFromDimensions ==
    (/\ DesignWritten
     /\ PositiveInt(req.body.width)
     /\ PositiveInt(req.body.height))
    => \A d \in Written : d.price = Num(req.body.width.v * req.body.height.v * 10)

\* C1 amended: a create or update that succeeds stores the price the request
\* supplies, as a number when it is one or numeric text and as the text
\* otherwise, whatever width and height the request carries.
C1_StoredPriceIsRequestPrice ==
    (DesignWritten /\ ~Falsy(req.body.price))
    => \A d \in Written :
          d.price = IF req.body.price.k = "str" /\ req.body.price.v \in NumericStrings
                    THEN Num(StrToNum(req.body.price.v))
                    ELSE req.body.price

\* a 1 x 2 design was saved at the price 40 the request gave, not at 20
C1_Witness ==
    /\ DesignWritten
    /\ req.body.width = Num(1)
    /\ req.body.height = Num(2)
    /\ req.body.price = Num(40)
    /\ \E d \in Written : d.price = Num(40)

\* C2 as claimed: a create or update whose width or height is zero, negative
\* or no integer is rejected with status 400 and changes no design.
C2_BadDimensionsRejected ==
    [][(/\ req'.op \in DesignWrites
        /\ req'.body # Null
        /\ (BadDimension(req'.body.width) \/ BadDimension(req'.body.height)))
       => (resp'.status = 400 /\ designs' = designs)]_vars

\* C2 amended: save_design rejects a body without name, price or description
\* (empty text and a price of 0 count as missing), add_design one without
\* name or price or without an image; the answer is status 400 and the designs
\* store stays exactly as it was.  Width and height are not examined.
C2_MissingFieldsRejected ==
    [][(\/ /\ req'.op = "save_design"
           /\ \/ req'.body = Null
              \/ Falsy(req'.body.name)
              \/ Falsy(req'.body.price)
              \/ Falsy(req'.body.description)
        \/ /\ req'.op = "add_design"
           /\ \/ req'.body = Null
              \/ Falsy(req'.body.name)
              \/ Falsy(req'.body.price)
              \/ Falsy(req'.body.images)
              \/ req'.body.images = List(<<>>))
       => (/\ resp'.status = 400
           /\ ~resp'.success
           /\ designs' = designs
           /\ nextDesignId' = nextDesignId)]_vars

\* a body with valid dimensions was rejected for a missing field, after a
\* design had been added
C2_Witness ==
    /\ req.op = "save_design"
    /\ req.body # Null
    /\ PositiveInt(req.body.width)
    /\ PositiveInt(req.body.height)
    /\ resp.status = 400
    /\ designs # SampleDesigns

\* the same body with another price, width and height
WithPrice(body, price) == [body EXCEPT !.price = price]
WithSize(body, dim) == [body EXCEPT !.width = dim[1], !.height = dim[2]]

\* the ids a save_design body may carry: none, or one a request may name
BodyIds == {Absent} \cup {Num(i) : i \in DesignIds}

Got == req.op = "get_orders" /\ resp.success

\* the stored lines of the user asked for
Mine == {r \in orders : r.username = req.username}

\* get_orders groups by the order_id column
Grouping == tableExists /\ "order_id" \in columns

\* the stored lines a returned order stands for
LinesOf(o) ==
    IF Grouping THEN {r \in Mine : r.order_id = o.order_id}
    ELSE {r \in Mine : Num(r.id) = o.order_id}

\* sum of price * quantity over a set of lines
RECURSIVE SumPriceQuantity(_)
SumPriceQuantity(lines) ==
    IF lines = {} THEN 0
    ELSE LET r == CHOOSE x \in lines : TRUE
         IN  r.price * r.quantity + SumPriceQuantity(lines \ {r})

\* the same sum with a stored quantity of 0 counted as 1
RECURSIVE SumPriceUnits(_)
SumPriceUnits(lines) ==
    IF lines = {} THEN 0
    ELSE LET r == CHOOSE x \in lines : TRUE
         IN  r.price * (IF r.quantity = 0 THEN 1 ELSE r.quantity)
                 + SumPriceUnits(lines \ {r})

\* sum of price * quantity over the items of a returned order, from item i on
RECURSIVE SumItems(_, _)
SumItems(items, i) ==
    IF i > Len(items) THEN 0
    ELSE items[i].price.v * items[i].quantity.v + SumItems(items, i + 1)

\* round(x, 2) of an amount in thousandths, ties to the even cent
Round2(x) ==
    LET cents == x \div 10
        rest == x % 10
    IN  IF rest < 5 \/ (rest = 5 /\ cents % 2 = 0) THEN cents * 10 ELSE (cents + 1) * 10

\* round(x * 0.18, 2) of an amount in thousandths
Tax18(x) ==
    LET cents == (x * 18) \div 1000
        rest == (x * 18) % 1000
    IN  IF rest < 500 \/ (rest = 500 /\ cents % 2 = 0) THEN cents * 10 ELSE (cents + 1) * 10

\* the aggregate an order reports: its subtotal, its total when it has none
Aggregate(o) == IF "subtotal" \in DOMAIN o THEN o.subtotal ELSE o.total

\* C4 as claimed: the emitted subtotal of every returned order is the sum of
\* price * quantity over the stored lines of its group, rounded to 2 decimals.
C4_SubtotalIsRoundedSum ==
    Got => \A i \in 1..Len(resp.orders) :
              Aggregate(resp.orders[i]) = Round2(SumPriceQuantity(LinesOf(resp.orders[i])))

\* C4 amended: every returned order reports one aggregate, total (there is
\* no subtotal field), equal to the sum of price * quantity over the stored
\* lines of its group, a stored quantity of 0 counting as 1, not rounded.
C4_TotalIsLiveSum ==
    Got => \A i \in 1..Len(resp.orders) :
              /\ "subtotal" \notin DOMAIN resp.orders[i]
              /\ resp.orders[i].total = SumPriceUnits(LinesOf(resp.orders[i]))

\* an order with a line of quantity 0 was returned with a total above 0
C4_Witness ==
    /\ Got
    /\ \E i \in 1..Len(resp.orders) :
          /\ resp.orders[i].total > 0
          /\ \E r \in LinesOf(resp.orders[i]) : r.quantity = 0

\* C5 as claimed: the emitted tax is the tax persisted on a line of the
\* group when there is one, and round(subtotal * 0.18, 2) otherwise.
C5_TaxStoredOrEighteenPercent ==
    Got => \A i \in 1..Len(resp.orders) :
              LET o == resp.orders[i]
                  taxed == {r \in LinesOf(o) : "tax" \in DOMAIN r}
              IN  /\ "tax" \in DOMAIN o
                  /\ IF taxed # {} THEN \E r \in taxed : o.tax = r.tax
                     ELSE o.tax = Tax18(SumPriceQuantity(LinesOf(o)))

\* C5 amended: no tax is stored and none is emitted: the orders table has no
\* tax column, no stored line carries a tax, and every returned order has
\* exactly the fields order_id, date, status, items and total.
C5_NoTaxStoredOrEmitted ==
    /\ "tax" \notin columns
    /\ \A r \in orders : "tax" \notin DOMAIN r
    /\ Got => \A i \in 1..Len(resp.orders) :
                 DOMAIN resp.orders[i] = {"order_id", "date", "status", "items", "total"}

\* an order saved by save_order was returned
C5_Witness ==
    /\ Got
    /\ \E i \in 1..Len(resp.orders) :
          /\ resp.orders[i].order_id.k = "str"
          /\ resp.orders[i].status = SaveOrderStatus
          /\ Len(resp.orders[i].items) = 1

\* C6 as claimed: with no persisted total on any line, the emitted total is
\* round(subtotal + tax, 2), the tax being 18% of the subtotal.
C6_TotalIsSubtotalPlusTax ==
    Got => \A i \in 1..Len(resp.orders) :
              LET sub == SumPriceQuantity(LinesOf(resp.orders[i]))
              IN  resp.orders[i].total = Round2(sub + Tax18(sub))

\* C6 amended: the emitted total is computed when the orders are read, as
\* the sum over the order's emitted items of item price * item quantity; no
\* tax is added and nothing is rounded.
C6_TotalIsSumOfItems ==
    Got => \A i \in 1..Len(resp.orders) :
              resp.orders[i].total = SumItems(resp.orders[i].items, 1)

\* a two-line order of 2 x 1.00 and 0.125 was returned with total 2.125
C6_Witness ==
    /\ Got
    /\ \E i \in 1..Len(resp.orders) :
          /\ Len(resp.orders[i].items) = 2
          /\ resp.orders[i].total = 2125

\* C7: among the lines that carry an order identifier, each identifier is
\* returned as exactly one order, whose items are the lines with that
\* identifier and no others.
C7_OneOrderPerIdentifier ==
    (Got /\ Grouping) =>
        \A key \in {r.order_id : r \in Mine} \ {Null} :
            LET lines == {r \in Mine : r.order_id = key}
                found == {i \in 1..Len(resp.orders) : resp.orders[i].order_id = key}
            IN  /\ Cardinality(found) = 1
                /\ \A i \in found :
                      /\ Len(resp.orders[i].items) = Cardinality(lines)
                      /\ \A j \in 1..Len(resp.orders[i].items) :
                            \E r \in lines :
                                /\ resp.orders[i].items[j].price = Num(r.price)
                                /\ resp.orders[i].items[j].name
                                       = PyOr(r.design_name, Str("Unknown Design"))

\* two lines saved under one identifier were returned as one order
C7_Witness ==
    /\ Got
    /\ Grouping
    /\ \E i \in 1..Len(resp.orders) :
          /\ resp.orders[i].order_id # Null
          /\ Len(resp.orders[i].items) = 2

\* an identifier made from the row id: the id itself, or ORD and the id
FromRowId(orderId, rowId) ==
    \/ orderId.k = "num" /\ orderId.v = rowId
    \/ orderId.k = "str" /\ Len(orderId.v) = 2 /\ orderId.v[2] = rowId

\* C8 as claimed: every stored line without an order identifier (no column,
\* or a null value) is returned as its own single-item order, keyed by an
\* identifier derived from its row id.
C8_LinesWithoutIdentifierStaySeparate ==
    Got => \A r \in Mine :
              (~Grouping \/ r.order_id = Null) =>
                  \E i \in 1..Len(resp.orders) :
                      /\ FromRowId(resp.orders[i].order_id, r.id)
                      /\ Len(resp.orders[i].items) = 1
                      /\ resp.orders[i].items[1].price = Num(r.price)

\* C9: the orders are returned newest first.
C9_NewestFirst ==
    Got => \A i \in 1..Len(resp.orders) : \A j \in 1..Len(resp.orders) :
              i < j => resp.orders[i].date >= resp.orders[j].date

\* two orders of different dates were returned
C9_Witness ==
    /\ Got
    /\ Len(resp.orders) = 2
    /\ resp.orders[1].date > resp.orders[2].date

\* C10 as claimed: a save_order without username, or with an empty username
\* or an empty item list, answers 400 and leaves the orders store as it was.
C10_InvalidOrderRejected ==
    \A data \in SaveOrderBodies \ {Null} :
        (Falsy(data.username) \/ data.items = Absent \/ data.items = List(<<>>)) =>
            \A t \in Now, rnd \in RandomSuffixes :
                LET r == SaveOrderResult(data, t, rnd)
                IN  /\ r.resp.status = 400
                    /\ ~r.resp.success
                    /\ r.orders = orders
                    /\ r.tableExists = tableExists
                    /\ r.columns = columns

(***************************************************************************)
(* Properties of save_order and the admin's requests (checked under        *)
(* AdminSpec, C14 under Spec)                                              *)
(***************************************************************************)
\* the last request was a save_order that stored at least one line
Saved == req.op = "save_order" /\ resp.success

\* the order-level amounts a request may carry
OrderTotals == {"subtotal", "tax", "total"}

\* C11 as claimed: the lines one save_order stores carry the identifier of
\* the response, one timestamp, and the subtotal, tax and total of the
\* request.
C11_TotalsStoredVerbatim ==
    [][(req'.op = "save_order" /\ resp'.success) =>
          \A r \in orders' \ orders :
              /\ r.order_id = resp'.order_id
              /\ \A other \in orders' \ orders : other.order_date = r.order_date
              /\ \A key \in OrderTotals :
                     key \in DOMAIN r /\ r[key] = req'.body[key]]_vars

\* C11 amended: the lines one save_order stores, as many as saved_count
\* says, carry the identifier of the response and one timestamp; the
\* subtotal, tax and total of the request are not stored on any line.
C11_SameIdentifierAndTimestamp ==
    [][(req'.op = "save_order" /\ resp'.success) =>
          /\ Cardinality(orders' \ orders) = resp'.saved_count
          /\ \A r \in orders' \ orders :
                /\ r.order_id = resp'.order_id
                /\ \A other \in orders' \ orders : other.order_date = r.order_date
                /\ DOMAIN r \cap OrderTotals = {}]_vars

\* an order of two lines was stored for a request that carried its totals
C11_Witness ==
    /\ Saved
    /\ resp.saved_count = 2
    /\ req.body.total = Num(2360)
    /\ Cardinality({r \in orders : r.order_id = resp.order_id}) = 2

\* the stored lines that carry the identifier of the last response
LinesOfResponse == {r \in orders : r.order_id = resp.order_id}

\* C12 as claimed: the lines of the order just saved have status Ordered,
\* and a get_orders made right after the save reports the order as Ordered.
C12_SavedWithStatusOrdered ==
    Saved =>
        /\ \A r \in LinesOfResponse : r.status = "Ordered"
        /\ \A rows \in Fetches(req.body.username.v) :
              \E i \in 1..Len(GetOrdersResponse(rows).orders) :
                  /\ GetOrdersResponse(rows).orders[i].order_id = resp.order_id
                  /\ GetOrdersResponse(rows).orders[i].status = "Ordered"

\* C12 amended: every line save_order stores has status Pending when it is
\* written, and a get_orders made right after a successful save_order
\* reports that order with status Pending, unless an earlier line with the
\* same identifier has had its status changed.
C12_SavedWithStatusPending ==
    /\ [][(req'.op = "save_order" /\ resp'.success) =>
             \A r \in orders' \ orders : r.status = "Pending"]_vars
    /\ [](Saved =>
            \A rows \in Fetches(req.body.username.v) :
                \E i \in 1..Len(GetOrdersResponse(rows).orders) :
                    /\ GetOrdersResponse(rows).orders[i].order_id = resp.order_id
                    /\ \/ GetOrdersResponse(rows).orders[i].status = "Pending"
                       \/ \E r \in LinesOfResponse : r.status # "Pending")

\* an order was saved, all its lines Pending, after the admin had moved
\* another line to Processing
C12_Witness ==
    /\ Saved
    /\ \A r \in LinesOfResponse : r.status = "Pending"
    /\ \E r \in orders : r.status = "Processing"

\* the fields of a line the round trip is about
RoundTripFields == {"price", "quantity"} \cup CustomColumns

\* the values save_order binds for a submitted item
Submitted(item) ==
    [price |-> Num(ToNumber(Get(item, "price", Num(0)))),
     quantity |-> Num(ToNumber(Get(item, "quantity", Num(1)))),
     placement_position |-> Get(item, "placement_position", Str("")),
     design_side |-> Get(item, "design_side", Str("front")),
     design_width |-> Num(ToNumber(Get(item, "design_width", Num(0)))),
     design_height |-> Num(ToNumber(Get(item, "design_height", Num(0)))),
     custom_requirements |-> Get(item, "custom_requirements", Str(""))]

\* the default get_orders reports for a field
ReadDefault(field) ==
    CASE field = "price" -> Num(0)
      [] field = "quantity" -> Num(1)
      [] field = "design_side" -> Str("front")
      [] field \in {"design_width", "design_height"} -> Num(0)
      [] OTHER -> Str("")

\* the returned item holds the submitted values
Reproduces(returned, item) ==
    \A field \in RoundTripFields :
        field \in DOMAIN returned /\ returned[field] = Submitted(item)[field]

\* the returned item holds the submitted values, a null, empty or zero one
\* replaced by the default
ReadsBack(returned, item) ==
    \A field \in RoundTripFields :
        /\ field \in DOMAIN returned
        /\ returned[field] = PyOr(Submitted(item)[field], ReadDefault(field))

\* the submitted items that save_order could store, of quantity 1 or more
StorableItems ==
    {j \in 1..Len(req.body.items.v) :
        /\ ItemConverts(req.body.items.v[j])
        /\ Submitted(req.body.items.v[j]).quantity.v >= 1}

\* C13 as claimed: after a successful save_order, get_orders returns the
\* order with an item for every submitted line that reproduces its quantity,
\* price and customization fields as submitted.
C13_RoundTripReproducesLines ==
    Saved =>
        \A rows \in Fetches(req.body.username.v) :
            \E i \in 1..Len(GetOrdersResponse(rows).orders) :
                /\ GetOrdersResponse(rows).orders[i].order_id = resp.order_id
                /\ \A j \in StorableItems :
                      \E n \in 1..Len(GetOrdersResponse(rows).orders[i].items) :
                          Reproduces(GetOrdersResponse(rows).orders[i].items[n],
                                     req.body.items.v[j])

\* C13 amended: after a successful save_order, get_orders returns the order
\* with an item for every submitted line that converted, holding its price
\* and quantity as numbers and its customization fields as submitted, except
\* that a null, empty or zero value is reported as the field's default.
C13_RoundTripWithDefaults ==
    Saved =>
        \A rows \in Fetches(req.body.username.v) :
            \E i \in 1..Len(GetOrdersResponse(rows).orders) :
                /\ GetOrdersResponse(rows).orders[i].order_id = resp.order_id
                /\ Len(GetOrdersResponse(rows).orders[i].items) >= resp.saved_count
                /\ \A j \in StorableItems :
                      \E n \in 1..Len(GetOrdersResponse(rows).orders[i].items) :
                          ReadsBack(GetOrdersResponse(rows).orders[i].items[n],
                                    req.body.items.v[j])

\* a line submitted with an empty design side and a null placement position
\* was stored under the identifier of the response
C13_Witness ==
    /\ Saved
    /\ \E j \in StorableItems : req.body.items.v[j].design_side = Str("")
    /\ \E r \in LinesOfResponse :
          r.design_side = Str("") /\ r.placement_position = Null

\* C14 as claimed: get_orders answers whatever the shape of the table, and
\* every item it returns carries the five customization attributes, an
\* absent column or a null value reported as the default.
C14_ItemsCarryCustomization ==
    req.op = "get_orders" =>
        /\ resp.success
        /\ \A i \in 1..Len(resp.orders) : \A n \in 1..Len(resp.orders[i].items) :
              \A field \in CustomColumns :
                  /\ field \in DOMAIN resp.orders[i].items[n]
                  /\ resp.orders[i].items[n][field] # Null
                  /\ field \notin columns
                         => resp.orders[i].items[n][field] = ReadDefault(field)

\* C15 as claimed: the identifier a save_order generates differs from every
\* identifier already in the store, so its lines are never grouped with the
\* lines of an earlier save_order.
C15_FreshIdentifier ==
    [][(req'.op = "save_order" /\ resp'.success) =>
          /\ resp'.order_id \notin {r.order_id : r \in orders}
          /\ \A r \in orders' : r.order_id = resp'.order_id => r \notin orders]_vars

\* C16 as claimed: in every state of the orders store, the lines that share
\* an order identifier have the same timestamp, the same status and the same
\* order-level totals.
C16_LinesOfAnOrderAgree ==
    \A r \in orders : \A other \in orders :
        (r.order_id # Null /\ r.order_id = other.order_id) =>
            /\ r.order_date = other.order_date
            /\ r.status = other.status
            /\ \A key \in OrderTotals \cap DOMAIN r :
                   key \in DOMAIN other /\ r[key] = other[key]

(***************************************************************************)
(* Properties of the designs store and its previews (C17 under DesignSpec, *)
(* C18 to C20 under PreviewSpec)                                           *)
(***************************************************************************)
\* the request is an update of a design: update_design, or save_design with
\* an id in its body
IsDesignUpdate(request) ==
    \/ request.op = "update_design" /\ request.body # Null
    \/ request.op = "save_design" /\ request.body # Null /\ Truthy(request.body.id)

\* the id of the design an update names
UpdatedId(request) ==
    IF request.op = "update_design" THEN request.id ELSE request.body.id.v

\* the request carries at least one image
SuppliesImage(request) ==
    request.body.images.k = "list" /\ Len(request.body.images.v) > 0

\* a field of the first image of the request, null when the image lacks it
SuppliedImage(request, field) ==
    IF request.body.images.v[1][field] = Absent THEN Null
    ELSE request.body.images.v[1][field]

\* C17 as claimed: an update that supplies an image leaves the design with
\* the data and type of the first supplied image; an update that supplies
\* none leaves the stored data and type as they were.
C17_SuppliedImageReplaces ==
    [][(IsDesignUpdate(req') /\ resp'.success) =>
          \A d \in designs : \A e \in designs' :
              (d.id = UpdatedId(req') /\ e.id = d.id) =>
                  IF SuppliesImage(req')
                  THEN /\ e.image_data = SuppliedImage(req', "image_data")
                       /\ e.image_type = SuppliedImage(req', "image_type")
                  ELSE /\ e.image_data = d.image_data
                       /\ e.image_type = d.image_type]_vars

\* C17 amended: update_design replaces the stored image data and type with
\* those of the first supplied image whenever the request carries an image;
\* save_design replaces them only when the first supplied image has both
\* data and type, and otherwise keeps the stored image; an update that
\* supplies no image leaves the stored image unchanged.
C17_CompleteImageReplaces ==
    [][(IsDesignUpdate(req') /\ resp'.success) =>
          \A d \in designs : \A e \in designs' :
              (d.id = UpdatedId(req') /\ e.id = d.id) =>
                  IF /\ SuppliesImage(req')
                     /\ \/ req'.op = "update_design"
                        \/ /\ Truthy(SuppliedImage(req', "image_data"))
                           /\ Truthy(SuppliedImage(req', "image_type"))
                  THEN /\ e.image_data = SuppliedImage(req', "image_data")
                       /\ e.image_type = SuppliedImage(req', "image_type")
                  ELSE /\ e.image_data = d.image_data
                       /\ e.image_type = d.image_type]_vars

\* save_design was sent a first image without type for a stored design,
\* which still has the image it had
C17_Witness ==
    /\ req.op = "save_design"
    /\ resp.success
    /\ IsDesignUpdate(req)
    /\ SuppliesImage(req)
    /\ SuppliedImage(req, "image_type") = Null
    /\ \E d \in designs : d.id = UpdatedId(req) /\ d.image_type = Str("image/png")

\* C18: a save_design update with delete_all_previews removes the previews
\* of its design and no other preview, and updates the design as the same
\* request without the flag does; without the flag the previews stay.
C18_FlagDeletesPreviewsOfDesign ==
    [][(req'.op = "save_design" /\ IsDesignUpdate(req') /\ resp'.success) =>
          /\ previews' = IF Truthy(req'.body.delete_all_previews)
                         THEN {p \in previews : p.design_id # UpdatedId(req')}
                         ELSE previews
          /\ designs' = SaveDesignResult(
                            [req'.body EXCEPT !.delete_all_previews = Absent]).designs]_vars

\* an update with the flag has removed a preview of its design and left the
\* preview of another design
C18_Witness ==
    /\ req.op = "save_design"
    /\ IsDesignUpdate(req)
    /\ resp.success
    /\ Truthy(req.body.delete_all_previews)
    /\ nextPreviewId = 3
    /\ Cardinality(previews) = 1
    /\ \A p \in previews : p.design_id # UpdatedId(req)

\* C19 as claimed: once delete_design has removed a design, no preview that
\* refers to it is left in the store.
C19_PreviewsDeletedWithDesign ==
    [][(req'.op = "delete_design" /\ resp'.success) =>
          \A p \in previews' : p.design_id # req'.id]_vars

\* the request names a design or an order line that the store does not
\* hold, and passes the checks its handler makes on the body
NamesUnknown(request) ==
    \/ /\ request.op \in {"update_design", "delete_design"}
       /\ request.op = "update_design" => request.body # Null
       /\ ~\E d \in designs : d.id = request.id
    \/ /\ request.op = "save_design"
       /\ IsDesignUpdate(request)
       /\ ~SaveDesignMissing(request.body)
       /\ ~\E d \in designs : d.id = UpdatedId(request)
    \/ /\ request.op \in {"update_order_status", "delete_order"}
       /\ request.op = "update_order_status" => Truthy(request.status)
       /\ tableExists
       /\ ~\E r \in orders : r.id = request.id

\* C20 as claimed: a request that names a design or an order line that does
\* not exist is answered 404 and changes nothing.
C20_UnknownIdentifierNotFound ==
    [][NamesUnknown(req') =>
          /\ resp'.status = 404
          /\ ~resp'.success
          /\ designs' = designs
          /\ previews' = previews
          /\ orders' = orders]_vars

(***************************************************************************)
(* Properties of save_order when lines fail (checked under PlacingSpec)    *)
(***************************************************************************)
\* the positions of the submitted items that save_order can store
Storable(items) == {j \in 1..Len(items) : IsObject(items[j]) /\ ItemConverts(items[j])}

\* the orders table takes the INSERT of save_order: it has the columns the
\* INSERT names, or there is no table and save_order creates it
TakesInsert == ~tableExists \/ SaveOrderColumns \subseteq columns

\* a line of the request fails after an earlier line was inserted
FailsAfterInsert(request) ==
    /\ request.op = "save_order"
    /\ TakesInsert
    /\ \E i \in Storable(request.body.items.v) :
          \E j \in 1..Len(request.body.items.v) :
              i < j /\ j \notin Storable(request.body.items.v)

\* C21 as claimed: when a line fails after earlier lines of the call were
\* inserted, the earlier lines stay in the store and the call is answered
\* with success false.
C21_PartialOrderReportedAsFailure ==
    [][FailsAfterInsert(req') =>
          /\ orders' # orders
          /\ orders \subseteq orders'
          /\ ~resp'.success]_vars

\* C21 amended: when a line fails to convert after earlier lines of the call
\* were inserted, the earlier lines stay in the store and the call is
\* answered with success true, saved_count the number of lines stored and
\* errors naming the lines that failed; when an item of the list is no
\* object, the call is answered 500 with success false and none of its lines
\* is stored.
C21_PartialOrderReportedInErrors ==
    [][FailsAfterInsert(req') =>
          LET items == req'.body.items.v
          IN  IF \E j \in 1..Len(items) : ~IsObject(items[j])
              THEN /\ orders' = orders
                   /\ ~resp'.success
                   /\ resp'.status = 500
              ELSE /\ orders \subseteq orders'
                   /\ Cardinality(orders' \ orders) = Cardinality(Storable(items))
                   /\ resp'.success
                   /\ resp'.status = 200
                   /\ resp'.saved_count = Cardinality(Storable(items))
                   /\ Len(resp'.errors) = Len(items) - Cardinality(Storable(items))
                   /\ \A n \in 1..Len(resp'.errors) :
                          resp'.errors[n] \notin Storable(items)]_vars

\* an order of two lines was answered with success, one line stored and the
\* second line in errors
C21_Witness ==
    /\ req.op = "save_order"
    /\ Len(req.body.items.v) = 2
    /\ resp.success
    /\ resp.saved_count = 1
    /\ resp.errors = <<2>>
    /\ Cardinality({r \in orders : r.order_id = resp.order_id}) = 1

(***************************************************************************)
(* Properties of the init functions (checked under InitSpec)               *)
(***************************************************************************)
\* the step is a pass through the body of init function fn
Attempted(fn) == boot.pc = "try" /\ InitFunctions[boot.fn] = fn /\ boot' # boot

\* the step makes the running init function return `value`
Returns(value) == boot'.returned = Append(boot.returned, value)

\* the call of the fn-th init function has come to an end
Ended(fn) == boot.pc = "raised" \/ Len(boot.returned) >= fn

\* C22 as claimed: each of the four init functions makes at most 3
\* attempts, returns True at the first that succeeds, goes round again after
\* a lock error while attempts remain, returns False when the last attempt
\* failed, and never raises; every call comes to an end.
C22_InitReturnsWithinThreeAttempts ==
    /\ [](boot.attempt < MaxRetries)
    /\ [](boot.pc # "raised")
    /\ [][\A fn \in {InitFunctions[i] : i \in 1..Len(InitFunctions)} :
             Attempted(fn) =>
                 /\ boot'.last = "ok" => Returns(TRUE)
                 /\ (boot'.last # "ok" /\ boot.attempt < MaxRetries - 1)
                        => boot'.pc = "sleep"
                 /\ (boot'.last # "ok" /\ boot.attempt = MaxRetries - 1)
                        => Returns(FALSE)]_vars
    /\ \A i \in 1..Len(InitFunctions) :
           (boot.pc = "try" /\ boot.fn = i) ~> (Len(boot.returned) >= i)

\* C22 amended: init_users_db, init_orders_db and init_admin_db make at most
\* 3 attempts: they return True at the first attempt that succeeds, sleep
\* and go round again after an sqlite3.OperationalError while attempts
\* remain, return False when the third attempt ended with one, and let an
\* exception of any other class through to the caller.  init_designs_db
\* makes one attempt and returns False after any exception.  Every call
\* comes to an end, by a return or by the exception.
C22_InitEndsByReturnOrException ==
    /\ [](boot.attempt < MaxRetries)
    /\ [][/\ \A fn \in {"init_users_db", "init_orders_db", "init_admin_db"} :
               Attempted(fn) =>
                   /\ boot'.last = "ok" => Returns(TRUE)
                   /\ (boot'.last = "OperationalError" /\ boot.attempt < MaxRetries - 1)
                          => (boot'.pc = "sleep" /\ boot'.returned = boot.returned)
                   /\ (boot'.last = "OperationalError" /\ boot.attempt = MaxRetries - 1)
                          => Returns(FALSE)
                   /\ boot'.last = "DatabaseError"
                          => (boot'.pc = "raised" /\ boot'.returned = boot.returned)
          /\ Attempted("init_designs_db") =>
                   /\ boot.attempt = 0
                   /\ Returns(boot'.last = "ok")]_vars
    /\ \A i \in 1..Len(InitFunctions) :
           (boot.pc = "try" /\ boot.fn = i) ~> Ended(i)

\* init_users_db has returned False after its third attempt, and
\* init_orders_db has let an exception through
C22_Witness ==
    /\ boot.pc = "raised"
    /\ boot.fn = 2
    /\ boot.returned = <<FALSE>>

(***************************************************************************)
(* Properties of get_orders and delete_order (C23 and C24 under AdminSpec, *)
(* C25 and C27 under Spec)                                                 *)
(***************************************************************************)
\* the position in the fetched rows of the first line of a returned order
FirstLine(rows, o) ==
    IF Grouping
    THEN CHOOSE j \in 1..Len(rows) :
            /\ rows[j].order_id = o.order_id
            /\ \A m \in 1..(j - 1) : rows[m].order_id # o.order_id
    ELSE CHOOSE j \in 1..Len(rows) : Num(rows[j].id) = o.order_id

\* the fetches of the SELECT that give the response of the last request
FetchesOfResponse ==
    {rows \in Fetches(req.username) : GetOrdersResponse(rows) = resp}

\* C23: the date and the status of every order get_orders returns are those
\* of the first line of its group in the order of the query, also when a
\* later line of the group has another date or status.
C23_FirstLineGivesDateAndStatus ==
    (Got /\ tableExists) =>
        /\ FetchesOfResponse # {}
        /\ \A rows \in FetchesOfResponse : \A i \in 1..Len(resp.orders) :
              /\ resp.orders[i].date = rows[FirstLine(rows, resp.orders[i])].order_date
              /\ resp.orders[i].status = rows[FirstLine(rows, resp.orders[i])].status

\* an order was returned whose two lines have different statuses
C23_Witness ==
    /\ Got
    /\ Grouping
    /\ \E i \in 1..Len(resp.orders) :
          /\ Len(resp.orders[i].items) = 2
          /\ \E r \in LinesOf(resp.orders[i]) : r.status # resp.orders[i].status

\* C24: delete_order removes the one stored line with the row id it names
\* and nothing else: every other line, the lines of the same order included,
\* stays as it was, and so do the table and its columns; when no line has
\* the row id, the store stays as it was.
C24_DeletesExactlyOneLine ==
    [][req'.op = "delete_order" =>
          /\ orders' = {r \in orders : r.id # req'.id}
          /\ Cardinality(orders \ orders') <= 1
          /\ resp'.success <=> (tableExists /\ \E r \in orders : r.id = req'.id)
          /\ tableExists' = tableExists
          /\ columns' = columns]_vars

\* delete_order has removed the first line of a two-line order, whose second
\* line is still stored
C24_Witness ==
    /\ req.op = "delete_order"
    /\ req.id = 1
    /\ resp.success
    /\ \E r \in orders : r.id = 2 /\ r.design_name = Str("Flyer Design")
                          /\ r.order_id = SaveOrderId(r.order_date, 1000)

\* the bodies of save_order with a username and at least one item
ValidOrderBodies ==
    {data \in SaveOrderBodies \ {Null} :
        Truthy(data.username) /\ data.items.k = "list" /\ Len(data.items.v) > 0}

\* the operations that add the order_id column to a table without it
FixOperations == {"fix_orders_structure", "fix_orders_table", "fix_orders_columns"}

\* the orders table is the one init_orders_db created, no column added since
AsInitOrdersDbLeftIt == tableExists /\ columns = InitOrdersColumns

PreviewsOf(designId) == {p \in previews : p.design_id = designId}

\* C26 as claimed: every preview add_design_preview adds gets the largest
\* sort_order of its design plus one, 0 when it is the first, so that the
\* sort_order values of a design are pairwise distinct and increase in the
\* order of insertion.
C26_SortOrderIsMaxPlusOne ==
    [][(req'.op = "add_design_preview" /\ resp'.success) =>
          \A p \in previews' \ previews :
              /\ PreviewsOf(req'.id) = {} => p.sort_order = 0
              /\ \A q \in PreviewsOf(req'.id) : q.sort_order < p.sort_order
              /\ PreviewsOf(req'.id) # {} =>
                     \E q \in PreviewsOf(req'.id) : p.sort_order = q.sort_order + 1]_vars

(***************************************************************************)
(* Properties of get_orders as a read (checked under Spec)                 *)
(***************************************************************************)
\* the returned item is made from the stored line
Shows(item, line) ==
    /\ item.name = PyOr(line.design_name, Str("Unknown Design"))
    /\ item.price = Num(line.price)
    /\ item.quantity = Num(IF line.quantity = 0 THEN 1 ELSE line.quantity)
    /\ item.image = PyOr(line.image_url, PlaceholderImage)

\* the items of a returned order and the stored lines it stands for match
\* one to one
ItemsMatchLines(o) ==
    \E f \in [1..Len(o.items) -> LinesOf(o)] :
        /\ \A r \in LinesOf(o) : \E j \in 1..Len(o.items) : f[j] = r
        /\ \A j \in 1..Len(o.items) : \A m \in 1..Len(o.items) : f[j] = f[m] => j = m
        /\ \A j \in 1..Len(o.items) : Shows(o.items[j], f[j])

\* C27: get_orders loses and invents nothing: every stored line of the user
\* is an item of exactly one returned order, the items of every returned
\* order are stored lines of that user, one item per line, and the call
\* leaves the orders store as it was.
C27_ReadLosesAndInventsNothing ==
    /\ [](Got =>
             /\ \A r \in Mine :
                    Cardinality({i \in 1..Len(resp.orders) : r \in LinesOf(resp.orders[i])}) = 1
             /\ \A i \in 1..Len(resp.orders) :
                    /\ Len(resp.orders[i].items) = Cardinality(LinesOf(resp.orders[i]))
                    /\ Len(resp.orders[i].items) > 0
                    /\ ItemsMatchLines(resp.orders[i]))
    /\ [][req'.op = "get_orders" =>
             /\ resp'.success
             /\ orders' = orders
             /\ tableExists' = tableExists
             /\ columns' = columns
             /\ nextRowId' = nextRowId]_vars

\* the lines of one user were returned while the store also held a line of
\* the other user
C27_Witness ==
    /\ Got
    /\ Len(resp.orders) > 0
    /\ Mine # {}
    /\ orders \ Mine # {}

(***************************************************************************)
(* Properties of the response of save_order (checked under PlacingSpec)    *)
(***************************************************************************)
\* C28 as claimed: save_order answers success exactly when it has stored at
\* least one line, its saved_count is the number of lines stored under the
\* identifier it returns, and a line that does not convert is named in
\* errors while the lines that convert are stored.
C28_SavedCountIsLinesOfIdentifier ==
    [][req'.op = "save_order" =>
          /\ resp'.success <=> orders' # orders
          /\ resp'.success =>
                 /\ resp'.saved_count
                        = Cardinality({r \in orders' : r.order_id = resp'.order_id})
                 /\ \A j \in 1..Len(req'.body.items.v) :
                        IF j \in Storable(req'.body.items.v)
                        THEN \E r \in orders' \ orders :
                                r.design_name = req'.body.items.v[j].name
                        ELSE \E n \in 1..Len(resp'.errors) : resp'.errors[n] = j]_vars

(***************************************************************************)
(* Properties of the cart and wishlist handlers (checked under UserSpec)   *)
(***************************************************************************)
\* the items of a submitted list a cart keeps, in the order submitted
RECURSIVE Kept(_, _)
Kept(items, index) ==
    IF index > Len(items) THEN <<>>
    ELSE (IF index \in Storable(items) THEN <<items[index]>> ELSE <<>>)
             \o Kept(items, index + 1)

\* the stored cart of a user as get_cart shows it, in the order of the ids
CartOf(rows, username) ==
    LET mine == ById({r \in rows : r.username = username})
    IN  [i \in 1..Len(mine) |-> CartEntry(mine[i])]

\* the cart that holds exactly the items of the list that convert
CartHolding(items) ==
    LET kept == Kept(items, 1)
    IN  [i \in 1..Len(kept) |-> CartEntry(CartRow(0, "", kept[i]))]

\* the stored wishlist of a user, in the order of the ids
WishlistOf(rows, username) ==
    LET mine == ById({r \in rows : r.username = username})
    IN  [i \in 1..Len(mine) |-> <<mine[i].design_name, mine[i].price, mine[i].image_url>>]

\* the wishlist that holds exactly the items of the list whose price converts
WishlistHolding(items) ==
    LET kept == SelectSeq(items, LAMBDA item :
                    IsObject(item) /\ Convertible(Get(item, "price", Num(0))))
    IN  [i \in 1..Len(kept) |->
            <<Get(kept[i], "name", Null), ToNumber(Get(kept[i], "price", Num(0))),
              Get(kept[i], "image", Str(""))>>]

\* C29: an answered sync_user_data leaves the user's cart as it was when the
\* body carries no cart (or a null one), and replaces it by the convertible items of the
\* cart list when one is carried (an empty list clears it); the wishlist is
\* treated the same way, independently, and no other user's rows change.
C29_SyncReplacesOnlyWhatIsCarried ==
    [][(req'.op = "sync_user_data" /\ resp'.success) =>
          LET data == req'.body
              u == data.username.v
          IN  /\ data.cart \in {Absent, Null} => cart' = cart
              /\ data.cart # Absent /\ data.cart # Null =>
                     /\ CartOf(cart', u) = CartHolding(data.cart.v)
                     /\ \A r \in cart' : r.username = u => r \notin cart
              /\ data.wishlist = Absent => wishlist' = wishlist
              /\ data.wishlist # Absent /\ data.wishlist # Null =>
                     /\ WishlistOf(wishlist', u) = WishlistHolding(data.wishlist.v)
                     /\ \A r \in wishlist' : r.username = u => r \notin wishlist
              /\ {r \in cart' : r.username # u} = {r \in cart : r.username # u}
              /\ {r \in wishlist' : r.username # u} = {r \in wishlist : r.username # u}]_vars

\* C29 witness: alice holds a cart and a wishlist entry, and a sync that
\* carried only an empty cart has cleared her cart and kept her wishlist
C29_Witness ==
    /\ req.op = "sync_user_data"
    /\ resp.success
    /\ req.body.cart = List(<<>>)
    /\ req.body.wishlist = Absent
    /\ nextCartId > 1
    /\ \A r \in cart : r.username # req.body.username.v
    /\ \E r \in wishlist : r.username = req.body.username.v
    /\ \E r \in cart : r.username = "bob"

\* C30: save_cart with a username and a cart list replaces the user's
\* stored cart by exactly the submitted items that convert, keeps none of the
\* earlier entries, leaves other users' carts and every wishlist unchanged,
\* and saving the same cart again leaves the same cart contents.
C30_SaveCartReplacesTheCart ==
    [][(/\ req'.op = "save_cart"
        /\ req'.body # Null
        /\ Truthy(req'.body.username)
        /\ req'.body.cart # Null) =>
          LET u == req'.body.username.v
              items == Get(req'.body, "cart", List(<<>>)).v
          IN  /\ resp'.success
              /\ CartOf(cart', u) = CartHolding(items)
              /\ resp'.saved_count = Len(Kept(items, 1))
              /\ \A r \in cart' : r.username = u => r \notin cart
              /\ {r \in cart' : r.username # u} = {r \in cart : r.username # u}
              /\ wishlist' = wishlist
              /\ (req.op = "save_cart" /\ req.body = req'.body) =>
                     CartOf(cart', u) = CartOf(cart, u)]_vars

\* C30 witness: alice's cart was saved twice in a row from a list with an
\* item that converts and items that do not, while bob holds a cart
C30_Witness ==
    /\ req.op = "save_cart"
    /\ resp.success
    /\ req.body.username = Str("alice")
    /\ req.body.cart = List(<<BadPriceItem, PlainItem, TextItem>>)
    /\ {r.id : r \in {c \in cart : c.username = "alice"}} = {MaxCartRows}
    /\ \E r \in cart : r.username = "bob"

====
